---- MODULE Spec2Model ----
(***************************************************************************)
(* The cart of the storefront client: CartScreen (the displayed Cart and   *)
(* its optimistic mutations), CartContext (the shared cart behind the tab  *)
(* badge), the cart endpoints of services/endpoints and normalizeCart,     *)
(* against a cart service that answers each request in its own time.       *)
(*                                                                         *)
(* An async handler is a task; each action is one synchronous segment of   *)
(* a handler: from its start, or from the await it resumes at, to its next *)
(* await or its end. The service handles a request when it is sent; the    *)
(* responses arrive at the client in any order.                            *)
(***************************************************************************)
EXTENDS Integers, Sequences, FiniteSets, TLC

\* ------------------------------------------------------------------ bounds
\* The largest quantity an item reaches (the "+" control is not pressed
\* beyond it).
MaxQty == 3
\* The number of operations the user starts in one session.
MaxPresses == 2
\* The number of mutations the user starts in a session of mutations only.
MaxMutations == 3
\* The number of mutations the user starts in a session watched to its end.
MaxIssued == 2
\* The number of translations requests LocalizationProvider sends in a session.
MaxFetches == 3

\* The cart items of the session, by id.
ItemIds == {1, 2}

\* ------------------------------------------------------------------- state
VARIABLES
    token,            \* AsyncStorage holds an auth token (TOKEN_KEY)
    server,           \* the cart service: quantity of each item (0: not in the cart), coupon applied
    mounted,          \* CartScreen is mounted (the cart tab has been opened)
    cart,             \* CartScreen: the displayed Cart, or NullCart
    ctxCart,          \* CartContext: the shared cart (tab badge), or NullCart
    updatingItemId,   \* CartScreen: the item whose controls are disabled, or NoItem
    isApplyingCoupon, \* CartScreen
    isLoading,        \* CartScreen
    isRefreshing,     \* CartScreen
    isAuthenticated,  \* CartScreen: the result of its last checkAuth
    alert,            \* the Alert dialog on screen, "none" when there is none
    tasks,            \* the handlers at an await, each with the responses on their way to it
    pressesLeft,      \* the operations the user may still start in this session
    isAddingToCart,   \* ProductDetailScreen: useState(false)
    clean,            \* history: only accepted mutations, each on an item with none in flight
    currentLocale,    \* i18n/locale: let currentLocale
    call,             \* history: the last call of a function of the data layer, with its input
    result,           \* history: what that call returned or threw
    providerMounted,  \* LocalizationProvider has rendered and run its effects
    localeState,      \* LocalizationProvider: useState(DEFAULT_LOCALE), `locale`
    translationsState,     \* LocalizationProvider: useState<Translations>({}), `translations`
    isLoadingTranslations, \* LocalizationProvider: useState(false), `isLoading`
    localeTasks,      \* LocalizationProvider: loadLocale and fetchTranslations at their await
    fetchesIssued     \* history: the translations requests sent so far

\* The state of LocalizationProvider.
provider == <<providerMounted, localeState, translationsState, isLoadingTranslations,
              localeTasks, fetchesIssued>>

\* The state of the data layer (locale, normalizers), its observed calls, and
\* the provider that sets the locale.
library == <<currentLocale, call, result, provider>>

\* The state of the cart screen, the product screen, the cart context and
\* the cart service.
shop == <<token, server, mounted, cart, ctxCart, updatingItemId, isApplyingCoupon,
          isLoading, isRefreshing, isAuthenticated, alert, tasks, pressesLeft,
          isAddingToCart, clean>>

vars == <<shop, library>>

\* ------------------------------------------------------- values and strings
\* A decimal string is the sequence of its characters.
Digits == <<"0", "1", "2", "3", "4", "5", "6", "7", "8", "9">>

IsDigit(c) == \E d \in 1..10 : Digits[d] = c

DigitVal(c) == (CHOOSE d \in 1..10 : Digits[d] = c) - 1

\* JS null / undefined where a string is expected.
Undefined == <<"undefined">>
\* LocalizationProvider: useState<Translations>({})
EmptyTable == [key \in {} |-> ""]
\* useState<Cart | null>(null)
NullCart == [null |-> TRUE]
\* useState<number | null>(null): no item id is 0.
NoItem == 0
\* Number.parseFloat's NaN (the model holds no negative number).
NaN == -1

RECURSIVE LeadingDigits(_)
\* The number of digit characters s starts with.
LeadingDigits(s) ==
    IF s = <<>> \/ ~IsDigit(Head(s)) THEN 0 ELSE 1 + LeadingDigits(Tail(s))

RECURSIVE DigitsValue(_)
\* The number a sequence of digit characters writes.
DigitsValue(s) ==
    IF s = <<>> THEN 0
    ELSE DigitsValue(SubSeq(s, 1, Len(s) - 1)) * 10 + DigitVal(s[Len(s)])

\* Number.parseFloat, in hundredths: the longest prefix digits[.digits] of s,
\* NaN when s starts with no number. Prices carry at most two decimals.
ParseFloat(s) ==
    LET n == LeadingDigits(s)
        rest == SubSeq(s, n + 1, Len(s))
        frac == IF rest # <<>> /\ Head(rest) = "." THEN Tail(rest) ELSE <<>>
        m == LeadingDigits(frac)
        f == SubSeq(frac, 1, IF m < 2 THEN m ELSE 2)
    IN  IF n = 0 /\ m = 0 THEN NaN
        ELSE DigitsValue(SubSeq(s, 1, n)) * 100
             + (IF Len(f) = 1 THEN DigitsValue(f) * 10 ELSE DigitsValue(f))

RECURSIVE NatToDigits(_)
\* The decimal digits of a natural number.
NatToDigits(n) ==
    IF n < 10 THEN <<Digits[n + 1]>>
    ELSE NatToDigits(n \div 10) \o <<Digits[(n % 10) + 1]>>

\* Number.prototype.toFixed(2) of a value given in hundredths.
ToFixed2(cents) ==
    NatToDigits(cents \div 100)
        \o <<".", Digits[((cents % 100) \div 10) + 1], Digits[(cents % 10) + 1]>>

\* obj.key ?? fallback on a raw JSON object (a function from its keys).
Coalesce(obj, key, fallback) ==
    IF key \in DOMAIN obj /\ obj[key] # Undefined THEN obj[key] ELSE fallback

\* --------------------------------------------------------------- JS values
\* A value whose type the code inspects is held with its typeof tag (null,
\* NaN and arrays have their own): a string is the sequence of its
\* characters, an array a sequence of values, an object a function from its
\* keys to values.
JsUndefined == [t |-> "undefined", v |-> {}]
JsNull == [t |-> "null", v |-> {}]
JsNaN == [t |-> "nan", v |-> {}]
Bool(b) == [t |-> "boolean", v |-> b]
Num(n) == [t |-> "number", v |-> n]
Str(s) == [t |-> "string", v |-> s]
Arr(a) == [t |-> "array", v |-> a]
Obj(o) == [t |-> "object", v |-> o]
\* {}
EmptyObject == Obj(<<>>)
\* A thrown TypeError, in place of a returned value.
Thrown == [t |-> "throw", v |-> "TypeError"]

\* No function of the data layer has been called yet.
NoCall == [fn |-> "none", input |-> JsUndefined, locale |-> "en", canonical |-> FALSE]

IsString(x) == x.t = "string"
IsNullish(x) == x.t \in {"undefined", "null"}
\* The value is an object in the sense of property access with a key
\* (arrays have no named data of their own here).
IsObject(x) == x.t = "object"

\* !!x
Truthy(x) ==
    CASE x.t = "boolean" -> x.v
      [] x.t = "number" -> x.v # 0
      [] x.t = "string" -> x.v # <<>>
      [] x.t \in {"undefined", "null", "nan"} -> FALSE
      [] OTHER -> TRUE

\* x[key] (x?.key): undefined on a missing key and on a value without keys.
Get(x, key) ==
    IF IsObject(x) /\ key \in DOMAIN x.v THEN x.v[key] ELSE JsUndefined

\* a ?? b
Or(a, b) == IF IsNullish(a) THEN b ELSE a

\* String.prototype.trim and toLowerCase, on the characters.
Whitespace == {" ", "\t", "\n"}

RECURSIVE TrimStart(_)
TrimStart(s) ==
    IF s # <<>> /\ Head(s) \in Whitespace THEN TrimStart(Tail(s)) ELSE s

RECURSIVE TrimEnd(_)
TrimEnd(s) ==
    IF s # <<>> /\ s[Len(s)] \in Whitespace
    THEN TrimEnd(SubSeq(s, 1, Len(s) - 1)) ELSE s

Trim(s) == TrimEnd(TrimStart(s))

UpperCase == <<"A", "B", "C", "D", "E", "F", "G", "H", "I", "J", "K", "L", "M", "N", "O", "P", "Q", "R", "S", "T", "U", "V", "W", "X", "Y", "Z">>
LowerCase == <<"a", "b", "c", "d", "e", "f", "g", "h", "i", "j", "k", "l", "m", "n", "o", "p", "q", "r", "s", "t", "u", "v", "w", "x", "y", "z">>

ToLowerCase(s) ==
    [k \in DOMAIN s |->
        IF \E i \in DOMAIN UpperCase : UpperCase[i] = s[k]
        THEN LowerCase[CHOOSE i \in DOMAIN UpperCase : UpperCase[i] = s[k]]
        ELSE s[k]]

\* A toBool that compares the string as it came.
ToBoolUntrimmed(value) ==
    CASE value.t = "boolean" -> value
      [] value = Num(1) \/ value = Str(<<"1">>) -> Bool(TRUE)
      [] value = Num(0) \/ value = Str(<<"0">>) -> Bool(FALSE)
      [] IsString(value) ->
            Bool(value.v \in {<<"t", "r", "u", "e">>, <<"y", "e", "s">>, <<"o", "n">>})
      [] OTHER -> Bool(Truthy(value))

\* toBool (the label only tags a console warning)
ToBool(value) ==
    CASE value.t = "boolean" -> value
      [] value = Num(1) \/ value = Str(<<"1">>) -> Bool(TRUE)
      [] value = Num(0) \/ value = Str(<<"0">>) -> Bool(FALSE)
      [] IsString(value) ->
            LET normalized == ToLowerCase(Trim(value.v))
            IN  IF normalized \in {<<"t", "r", "u", "e">>, <<"y", "e", "s">>, <<"o", "n">>} THEN Bool(TRUE)
                ELSE IF normalized \in {<<"f", "a", "l", "s", "e">>, <<"n", "o">>, <<"o", "f", "f">>, <<>>} THEN Bool(FALSE)
                ELSE Bool(FALSE)
      [] IsNullish(value) -> Bool(FALSE)
      [] OTHER -> Bool(Truthy(value))

\* An unwrapCollection that takes any data field.
UnwrapCollectionAnyData(value) ==
    IF value.t = "array" THEN value
    ELSE IF Truthy(Get(value, "data")) THEN Get(value, "data")
    ELSE Arr(<<>>)

\* unwrapCollection of services/normalizers
UnwrapCollection(value) ==
    IF value.t = "array" THEN value
    ELSE IF Truthy(value) /\ Get(value, "data").t = "array" THEN Get(value, "data")
    ELSE Arr(<<>>)

\* unwrapCollection of services/endpoints (its own copy)
EndpointsUnwrapCollection(value) ==
    IF value.t = "array" THEN value
    ELSE IF Truthy(value) /\ Get(value, "data").t = "array" THEN Get(value, "data")
    ELSE Arr(<<>>)

\* ------------------------------------------------------------- i18n/locale
\* getCurrentLocale
GetCurrentLocale == currentLocale

\* readLocalizedValue
ReadLocalizedValue(value, locale) ==
    IF ~Truthy(value) THEN JsUndefined
    ELSE IF IsString(value) THEN value
    ELSE IF IsObject(value) /\ Truthy(Get(value, locale)) THEN Get(value, locale)
    ELSE IF IsObject(value) /\ Truthy(Get(value, "en")) THEN Get(value, "en")
    ELSE JsUndefined

\* source.translations || source.i18n
TranslationsOf(source) ==
    IF Truthy(Get(source, "translations")) THEN Get(source, "translations")
    ELSE Get(source, "i18n")

\* `${field}_${locale}`
LocalizedKey(field, locale) == field \o "_" \o locale

\* A getLocalizedField that takes any string field before the translations.
GetLocalizedFieldAnyString(source, field, fallback) ==
    LET locale == GetCurrentLocale
        fieldValue == Get(source, field)
        translations == TranslationsOf(source)
    IN  IF ~Truthy(source) THEN fallback
        ELSE IF Truthy(Get(source, LocalizedKey(field, locale)))
        THEN Get(source, LocalizedKey(field, locale))
        ELSE IF IsString(fieldValue) THEN fieldValue
        ELSE IF Truthy(ReadLocalizedValue(fieldValue, locale))
        THEN ReadLocalizedValue(fieldValue, locale)
        ELSE IF Truthy(Get(Get(translations, locale), field))
        THEN Get(Get(translations, locale), field)
        ELSE fallback

\* A getLocalizedField that resolves against the default locale.
GetLocalizedFieldInEnglish(source, field, fallback) ==
    LET locale == "en"
        fieldValue == Get(source, field)
        localizedValue == ReadLocalizedValue(fieldValue, locale)
        translations == TranslationsOf(source)
    IN  IF ~Truthy(source) THEN fallback
        ELSE IF Truthy(Get(source, LocalizedKey(field, locale)))
        THEN Get(source, LocalizedKey(field, locale))
        ELSE IF Truthy(localizedValue) THEN localizedValue
        ELSE IF /\ Truthy(translations)
                /\ Truthy(Get(translations, locale))
                /\ Truthy(Get(Get(translations, locale), field))
        THEN Get(Get(translations, locale), field)
        ELSE IF IsString(fieldValue) THEN fieldValue
        ELSE fallback

\* getLocalizedField
GetLocalizedField(source, field, fallback) ==
    LET locale == GetCurrentLocale
        fieldValue == Get(source, field)
        localizedValue == ReadLocalizedValue(fieldValue, locale)
        translations == TranslationsOf(source)
    IN  IF ~Truthy(source) THEN fallback
        ELSE IF Truthy(Get(source, LocalizedKey(field, locale)))
        THEN Get(source, LocalizedKey(field, locale))
        ELSE IF Truthy(localizedValue) THEN localizedValue
        ELSE IF /\ Truthy(translations)
                /\ Truthy(Get(translations, locale))
                /\ Truthy(Get(Get(translations, locale), field))
        THEN Get(Get(translations, locale), field)
        ELSE IF IsString(fieldValue) THEN fieldValue
        ELSE fallback

\* ------------------------------------------- normalizers, on any value
RECURSIVE ToStr(_)
\* String(value): the characters JS writes for a value.
ToStr(value) ==
    CASE value.t = "string" -> value.v
      [] value.t = "number" ->
            IF value.v < 0 THEN <<"-">> \o NatToDigits(0 - value.v)
            ELSE NatToDigits(value.v)
      [] value.t = "nan" -> <<"N", "a", "N">>
      [] value.t = "boolean" -> IF value.v THEN <<"t", "r", "u", "e">> ELSE <<"f", "a", "l", "s", "e">>
      [] value.t = "null" -> <<"n", "u", "l", "l">>
      [] value.t = "undefined" -> <<"u", "n", "d", "e", "f", "i", "n", "e", "d">>
      [] value.t = "array" ->
            IF value.v = <<>> THEN <<>>
            ELSE (IF IsNullish(Head(value.v)) THEN <<>> ELSE ToStr(Head(value.v)))
                 \o (IF Len(value.v) = 1 THEN <<>>
                     ELSE <<",">> \o ToStr(Arr(Tail(value.v))))
      [] OTHER -> <<"[", "o", "b", "j", "e", "c", "t", " ", "O", "b", "j", "e", "c", "t", "]">>

\* safeString(value, fallback)
SafeString(value, fallback) ==
    IF IsNullish(value) THEN fallback ELSE Str(ToStr(value))

\* Number(value), NaN included. The numbers of the model are the integers: a
\* string counts as a number when, trimmed, it is empty or digits after an
\* optional sign.
ToNumber(value) ==
    CASE value.t = "number" -> value
      [] value.t = "boolean" -> Num(IF value.v THEN 1 ELSE 0)
      [] value.t = "null" -> Num(0)
      [] value.t \in {"undefined", "nan"} -> JsNaN
      [] OTHER ->
            LET text == Trim(ToStr(value))
            IN  IF text = <<>> THEN Num(0)
                ELSE IF LeadingDigits(text) = Len(text) THEN Num(DigitsValue(text))
                ELSE IF Head(text) \in {"-", "+"} /\ Len(text) > 1
                        /\ LeadingDigits(Tail(text)) = Len(text) - 1
                THEN Num(IF Head(text) = "-" THEN 0 - DigitsValue(Tail(text))
                         ELSE DigitsValue(Tail(text)))
                ELSE JsNaN

\* safeNumber(value, fallback)
SafeNumber(value, fallback) ==
    IF ToNumber(value).t = "number" THEN ToNumber(value) ELSE Num(fallback)

\* String.prototype.startsWith
StartsWith(s, prefix) ==
    Len(s) >= Len(prefix) /\ SubSeq(s, 1, Len(prefix)) = prefix

\* The index of the first character of s that is in the set, Len(s) + 1 if none.
RECURSIVE IndexOfAny(_, _)
IndexOfAny(s, chars) ==
    IF s = <<>> \/ Head(s) \in chars THEN 1 ELSE 1 + IndexOfAny(Tail(s), chars)

\* getBaseUrl().replace('/api', '') of a development build on iOS or the web.
BaseUrl == <<"h", "t", "t", "p", ":", "/", "/", "l", "o", "c", "a", "l", "h", "o", "s", "t", ":", "8", "0", "0", "0">>

\* new URL(path) of a path that starts with http: the text after the scheme
\* and its two slashes, or no URL at all (the constructor throws).
AfterScheme(path) ==
    IF StartsWith(path, <<"h", "t", "t", "p", ":", "/", "/">>) THEN SubSeq(path, 8, Len(path))
    ELSE IF StartsWith(path, <<"h", "t", "t", "p", "s", ":", "/", "/">>) THEN SubSeq(path, 9, Len(path))
    ELSE <<>>

IsUrl(path) == AfterScheme(path) # <<>> /\ Head(AfterScheme(path)) \notin {"/", ":", "?", "#"}

\* parsed.hostname
Hostname(path) ==
    SubSeq(AfterScheme(path), 1, IndexOfAny(AfterScheme(path), {":", "/", "?", "#"}) - 1)

\* parsed.pathname
Pathname(path) ==
    LET rest == AfterScheme(path)
        from == IndexOfAny(rest, {"/", "?", "#"})
        tail == SubSeq(rest, from, Len(rest))
    IN  IF tail = <<>> \/ Head(tail) # "/" THEN <<"/">>
        ELSE SubSeq(tail, 1, IndexOfAny(tail, {"?", "#"}) - 1)

LocalHosts == {<<"l", "o", "c", "a", "l", "h", "o", "s", "t">>, <<"1", "2", "7", ".", "0", ".", "0", ".", "1">>, <<"1", "0", ".", "0", ".", "2", ".", "2">>}

\* getImageUrl: path.startsWith is a TypeError on a truthy value that is not
\* a string.
GetImageUrl(path) ==
    IF ~Truthy(path) THEN JsUndefined
    ELSE IF ~IsString(path) THEN Thrown
    ELSE IF StartsWith(path.v, <<"h", "t", "t", "p">>)
    THEN IF IsUrl(path.v) /\ Hostname(path.v) \in LocalHosts
         THEN Str(BaseUrl \o Pathname(path.v))
         ELSE path
    ELSE LET cleanPath == IF StartsWith(path.v, <<"/">>) THEN path.v ELSE <<"/">> \o path.v
         IN  Str(BaseUrl \o (IF StartsWith(cleanPath, <<"/", "s", "t", "o", "r", "a", "g", "e">>) THEN cleanPath
                             ELSE <<"/", "s", "t", "o", "r", "a", "g", "e">> \o cleanPath))

\* a || b, a throw in a going through.
OrElse(a, b) == IF Truthy(a) THEN a ELSE b

\* array.map(f).filter(Boolean), given the mapped values; one throw ends it.
Compact(mapped) ==
    IF \E k \in DOMAIN mapped : mapped[k] = Thrown THEN Thrown
    ELSE Arr(SelectSeq(mapped, Truthy))

\* An object literal whose fields are evaluated one by one; one throw ends it.
Literal(fields) ==
    IF \E key \in DOMAIN fields : fields[key] = Thrown THEN Thrown ELSE Obj(fields)

RECURSIVE NormalizeCategory(_)
\* normalizeCategory
NormalizeCategory(category) ==
    LET heroImages == Get(category, "hero_images")
        children == UnwrapCollection(Get(category, "children")).v
    IN  Literal(
        [id |-> Or(Get(category, "id"), Num(0)),
         name |-> GetLocalizedField(category, "name",
                                    SafeString(Get(category, "name"), Str(<<>>))),
         slug |-> SafeString(Get(category, "slug"), Str(<<>>)),
         icon |-> SafeString(Get(category, "icon"), Str(<<>>)),
         image |-> OrElse(GetImageUrl(Or(Get(category, "image_url"),
                                         Get(category, "image"))), Str(<<>>)),
         hero_images |-> IF heroImages.t = "array"
                         THEN Compact([k \in DOMAIN heroImages.v |->
                                            GetImageUrl(heroImages.v[k])])
                         ELSE Arr(<<>>),
         name_en |-> SafeString(Or(Get(category, "name_en"), Get(category, "name")),
                                Str(<<>>)),
         name_ar |-> SafeString(Get(category, "name_ar"), Str(<<>>)),
         name_ku |-> SafeString(Get(category, "name_ku"), Str(<<>>)),
         name_ku_sorani |-> SafeString(Get(category, "name_ku_sorani"), Str(<<>>)),
         name_ku_badini |-> SafeString(Get(category, "name_ku_badini"), Str(<<>>)),
         parent_id |-> Or(Get(category, "parent_id"), JsNull),
         products_count |-> Get(category, "products_count"),
         children |-> LET mapped == [k \in DOMAIN children |->
                                        NormalizeCategory(children[k])]
                      IN  IF \E k \in DOMAIN mapped : mapped[k] = Thrown THEN Thrown
                          ELSE Arr(mapped)])

\* safeString(value) with the default fallback ''
SafeText(value) == SafeString(value, Str(<<>>))

\* normalizeVendor
NormalizeVendor(vendor) ==
    LET status == Or(Get(vendor, "status"), Str(<<>>))
        hasIsVerified == ~IsNullish(Get(vendor, "is_verified"))
    IN  Literal(
        [id |-> Or(Get(vendor, "id"), Num(0)),
         name |-> SafeText(Or(Get(vendor, "store_name"), Get(vendor, "name"))),
         slug |-> SafeText(Get(vendor, "slug")),
         description |-> SafeText(Get(vendor, "description")),
         logo |-> OrElse(GetImageUrl(Or(Get(vendor, "profile_image_url"),
                                        Or(Get(vendor, "logo"),
                                           Get(vendor, "profile_image")))), Str(<<>>)),
         banner |-> OrElse(GetImageUrl(Or(Get(vendor, "cover_image_url"),
                                          Or(Get(vendor, "banner"),
                                             Get(vendor, "cover_image")))), Str(<<>>)),
         is_verified |-> IF hasIsVerified THEN ToBool(Get(vendor, "is_verified"))
                         ELSE Bool(status = Str(<<"a", "p", "p", "r", "o", "v", "e", "d">>))])

RECURSIVE Join(_)
\* parts.join(' ') of an array of strings
Join(parts) ==
    IF parts = <<>> THEN <<>>
    ELSE IF Len(parts) = 1 THEN Head(parts).v
    ELSE Head(parts).v \o <<" ">> \o Join(Tail(parts))

\* normalizeProductVariant
NormalizeProductVariant(variant) ==
    LET sized == Truthy(Get(variant, "size"))
        colored == Truthy(Get(variant, "color"))
        attributes ==
            [key \in (IF sized THEN {"size"} ELSE {}) \cup (IF colored THEN {"color"} ELSE {})
                |-> SafeText(Get(variant, key))]
        nameParts == SelectSeq(<<Get(variant, "name"), Get(variant, "size"),
                                 Get(variant, "color")>>, Truthy)
        fallbackName ==
            IF nameParts # <<>> THEN Join([k \in DOMAIN nameParts |-> SafeText(nameParts[k])])
            ELSE Trim(<<"V", "a", "r", "i", "a", "n", "t", " ">> \o ToStr(Or(Get(variant, "id"), Str(<<>>))))
    IN  Obj([id |-> Or(Get(variant, "id"), Num(0)),
             name |-> SafeText(Str(fallbackName)),
             sku |-> SafeText(Get(variant, "sku")),
             price |-> SafeText(Or(Get(variant, "effective_price"),
                                   Or(Get(variant, "price"), Str(<<"0">>)))),
             compare_price |-> Or(Get(variant, "compare_price"), JsNull),
             stock |-> SafeNumber(Get(variant, "stock"), 0),
             attributes |-> Obj(attributes)])

\* A normalizeProduct that normalizes the category and the vendor whether the
\* raw product has them or not.
NormalizeProductWithStubs(product) ==
    LET rawImages == IF Get(product, "images").t = "array"
                     THEN Get(product, "images").v ELSE <<>>
        images == Compact([k \in DOMAIN rawImages |-> GetImageUrl(rawImages[k])])
        thumbnail ==
            IF images = Thrown THEN Thrown
            ELSE OrElse(GetImageUrl(Get(product, "thumbnail")),
                 OrElse(GetImageUrl(Or(Get(product, "image_url"), Get(product, "image"))),
                 OrElse(IF images.v # <<>> THEN Head(images.v) ELSE JsUndefined,
                        Str(<<>>))))
        rawVariants == UnwrapCollection(Get(product, "variants")).v
        variants == [k \in DOMAIN rawVariants |-> NormalizeProductVariant(rawVariants[k])]
        inStock ==
            IF Get(product, "in_stock") # JsUndefined THEN ToBool(Get(product, "in_stock"))
            ELSE Bool(\E k \in DOMAIN variants : variants[k].v.stock.v > 0)
        hasIsWishlisted == ~IsNullish(Get(product, "is_wishlisted"))
        hasIsActive == ~IsNullish(Get(product, "is_active"))
    IN  Literal(
        [id |-> Or(Get(product, "id"), Num(0)),
         name |-> GetLocalizedField(product, "name", SafeText(Get(product, "name"))),
         slug |-> SafeText(Get(product, "slug")),
         description |-> GetLocalizedField(product, "description",
                                           SafeText(Get(product, "description"))),
         short_description |->
            SafeText(GetLocalizedField(product, "short_description",
                        SafeText(Or(Get(product, "short_description"),
                                    Get(product, "description"))))),
         name_en |-> SafeText(Or(Get(product, "name_en"), Get(product, "name"))),
         name_ar |-> SafeText(Get(product, "name_ar")),
         name_ku |-> SafeText(Get(product, "name_ku")),
         name_ku_sorani |-> SafeText(Get(product, "name_ku_sorani")),
         name_ku_badini |-> SafeText(Get(product, "name_ku_badini")),
         description_en |-> SafeText(Or(Get(product, "description_en"),
                                        Get(product, "description"))),
         description_ar |-> SafeText(Get(product, "description_ar")),
         description_ku |-> SafeText(Get(product, "description_ku")),
         description_ku_sorani |-> SafeText(Get(product, "description_ku_sorani")),
         description_ku_badini |-> SafeText(Get(product, "description_ku_badini")),
         price |-> SafeText(Or(Get(product, "price"),
                               Or(Get(product, "base_price"),
                                  Or(Get(product, "min_price"), Str(<<"0">>))))),
         compare_price |-> Or(Get(product, "compare_price"), JsNull),
         discount_percentage |-> Or(Get(product, "discount_percentage"), JsNull),
         is_wishlisted |-> IF hasIsWishlisted THEN ToBool(Get(product, "is_wishlisted"))
                           ELSE JsUndefined,
         status |-> SafeText(Or(Get(product, "status"), Str(<<>>))),
         is_active |-> IF hasIsActive THEN ToBool(Get(product, "is_active"))
                       ELSE JsUndefined,
         images |-> images,
         thumbnail |-> thumbnail,
         category |-> NormalizeCategory(Get(product, "category")),
         vendor |-> NormalizeVendor(Get(product, "vendor")),
         variants |-> Arr(variants),
         in_stock |-> inStock,
         average_rating |-> SafeNumber(Get(product, "average_rating"), 0),
         reviews_count |-> SafeNumber(Get(product, "reviews_count"), 0)])

\* A normalizeProduct that takes the name as it is, whatever the locale.
NormalizeProductPlainName(product) ==
    LET rawImages == IF Get(product, "images").t = "array"
                     THEN Get(product, "images").v ELSE <<>>
        images == Compact([k \in DOMAIN rawImages |-> GetImageUrl(rawImages[k])])
        thumbnail ==
            IF images = Thrown THEN Thrown
            ELSE OrElse(GetImageUrl(Get(product, "thumbnail")),
                 OrElse(GetImageUrl(Or(Get(product, "image_url"), Get(product, "image"))),
                 OrElse(IF images.v # <<>> THEN Head(images.v) ELSE JsUndefined,
                        Str(<<>>))))
        rawVariants == UnwrapCollection(Get(product, "variants")).v
        variants == [k \in DOMAIN rawVariants |-> NormalizeProductVariant(rawVariants[k])]
        inStock ==
            IF Get(product, "in_stock") # JsUndefined THEN ToBool(Get(product, "in_stock"))
            ELSE Bool(\E k \in DOMAIN variants : variants[k].v.stock.v > 0)
        hasIsWishlisted == ~IsNullish(Get(product, "is_wishlisted"))
        hasIsActive == ~IsNullish(Get(product, "is_active"))
    IN  Literal(
        [id |-> Or(Get(product, "id"), Num(0)),
         name |-> SafeText(Get(product, "name")),
         slug |-> SafeText(Get(product, "slug")),
         description |-> GetLocalizedField(product, "description",
                                           SafeText(Get(product, "description"))),
         short_description |->
            SafeText(GetLocalizedField(product, "short_description",
                        SafeText(Or(Get(product, "short_description"),
                                    Get(product, "description"))))),
         name_en |-> SafeText(Or(Get(product, "name_en"), Get(product, "name"))),
         name_ar |-> SafeText(Get(product, "name_ar")),
         name_ku |-> SafeText(Get(product, "name_ku")),
         name_ku_sorani |-> SafeText(Get(product, "name_ku_sorani")),
         name_ku_badini |-> SafeText(Get(product, "name_ku_badini")),
         description_en |-> SafeText(Or(Get(product, "description_en"),
                                        Get(product, "description"))),
         description_ar |-> SafeText(Get(product, "description_ar")),
         description_ku |-> SafeText(Get(product, "description_ku")),
         description_ku_sorani |-> SafeText(Get(product, "description_ku_sorani")),
         description_ku_badini |-> SafeText(Get(product, "description_ku_badini")),
         price |-> SafeText(Or(Get(product, "price"),
                               Or(Get(product, "base_price"),
                                  Or(Get(product, "min_price"), Str(<<"0">>))))),
         compare_price |-> Or(Get(product, "compare_price"), JsNull),
         discount_percentage |-> Or(Get(product, "discount_percentage"), JsNull),
         is_wishlisted |-> IF hasIsWishlisted THEN ToBool(Get(product, "is_wishlisted"))
                           ELSE JsUndefined,
         status |-> SafeText(Or(Get(product, "status"), Str(<<>>))),
         is_active |-> IF hasIsActive THEN ToBool(Get(product, "is_active"))
                       ELSE JsUndefined,
         images |-> images,
         thumbnail |-> thumbnail,
         category |-> IF Truthy(Get(product, "category"))
                      THEN NormalizeCategory(Get(product, "category")) ELSE JsUndefined,
         vendor |-> IF Truthy(Get(product, "vendor"))
                    THEN NormalizeVendor(Get(product, "vendor")) ELSE JsUndefined,
         variants |-> Arr(variants),
         in_stock |-> inStock,
         average_rating |-> SafeNumber(Get(product, "average_rating"), 0),
         reviews_count |-> SafeNumber(Get(product, "reviews_count"), 0)])

\* normalizeProduct
NormalizeProduct(product) ==
    LET rawImages == IF Get(product, "images").t = "array"
                     THEN Get(product, "images").v ELSE <<>>
        images == Compact([k \in DOMAIN rawImages |-> GetImageUrl(rawImages[k])])
        thumbnail ==
            IF images = Thrown THEN Thrown
            ELSE OrElse(GetImageUrl(Get(product, "thumbnail")),
                 OrElse(GetImageUrl(Or(Get(product, "image_url"), Get(product, "image"))),
                 OrElse(IF images.v # <<>> THEN Head(images.v) ELSE JsUndefined,
                        Str(<<>>))))
        rawVariants == UnwrapCollection(Get(product, "variants")).v
        variants == [k \in DOMAIN rawVariants |-> NormalizeProductVariant(rawVariants[k])]
        inStock ==
            IF Get(product, "in_stock") # JsUndefined THEN ToBool(Get(product, "in_stock"))
            ELSE Bool(\E k \in DOMAIN variants : variants[k].v.stock.v > 0)
        hasIsWishlisted == ~IsNullish(Get(product, "is_wishlisted"))
        hasIsActive == ~IsNullish(Get(product, "is_active"))
    IN  Literal(
        [id |-> Or(Get(product, "id"), Num(0)),
         name |-> GetLocalizedField(product, "name", SafeText(Get(product, "name"))),
         slug |-> SafeText(Get(product, "slug")),
         description |-> GetLocalizedField(product, "description",
                                           SafeText(Get(product, "description"))),
         short_description |->
            SafeText(GetLocalizedField(product, "short_description",
                        SafeText(Or(Get(product, "short_description"),
                                    Get(product, "description"))))),
         name_en |-> SafeText(Or(Get(product, "name_en"), Get(product, "name"))),
         name_ar |-> SafeText(Get(product, "name_ar")),
         name_ku |-> SafeText(Get(product, "name_ku")),
         name_ku_sorani |-> SafeText(Get(product, "name_ku_sorani")),
         name_ku_badini |-> SafeText(Get(product, "name_ku_badini")),
         description_en |-> SafeText(Or(Get(product, "description_en"),
                                        Get(product, "description"))),
         description_ar |-> SafeText(Get(product, "description_ar")),
         description_ku |-> SafeText(Get(product, "description_ku")),
         description_ku_sorani |-> SafeText(Get(product, "description_ku_sorani")),
         description_ku_badini |-> SafeText(Get(product, "description_ku_badini")),
         price |-> SafeText(Or(Get(product, "price"),
                               Or(Get(product, "base_price"),
                                  Or(Get(product, "min_price"), Str(<<"0">>))))),
         compare_price |-> Or(Get(product, "compare_price"), JsNull),
         discount_percentage |-> Or(Get(product, "discount_percentage"), JsNull),
         is_wishlisted |-> IF hasIsWishlisted THEN ToBool(Get(product, "is_wishlisted"))
                           ELSE JsUndefined,
         status |-> SafeText(Or(Get(product, "status"), Str(<<>>))),
         is_active |-> IF hasIsActive THEN ToBool(Get(product, "is_active"))
                       ELSE JsUndefined,
         images |-> images,
         thumbnail |-> thumbnail,
         category |-> IF Truthy(Get(product, "category"))
                      THEN NormalizeCategory(Get(product, "category")) ELSE JsUndefined,
         vendor |-> IF Truthy(Get(product, "vendor"))
                    THEN NormalizeVendor(Get(product, "vendor")) ELSE JsUndefined,
         variants |-> Arr(variants),
         in_stock |-> inStock,
         average_rating |-> SafeNumber(Get(product, "average_rating"), 0),
         reviews_count |-> SafeNumber(Get(product, "reviews_count"), 0)])

\* normalizeCartItem, on any item
NormalizeCartItemOfAny(item) ==
    Literal(
        [id |-> Or(Get(item, "id"), Num(0)),
         product |-> NormalizeProduct(Or(Get(item, "product"), EmptyObject)),
         variant |-> IF Truthy(Get(item, "variant"))
                     THEN NormalizeProductVariant(Get(item, "variant")) ELSE JsNull,
         quantity |-> SafeNumber(Get(item, "quantity"), 0),
         unit_price |-> SafeText(Or(Get(item, "unit_price"),
                                    Or(Get(item, "price"), Str(<<"0">>)))),
         subtotal |-> SafeText(Or(Get(item, "subtotal"), Str(<<"0">>)))])

RECURSIVE TotalQuantity(_)
\* items.reduce((total, item) => total + (item.quantity || 0), 0)
TotalQuantity(items) ==
    IF items = <<>> THEN 0
    ELSE Head(items).v.quantity.v + TotalQuantity(Tail(items))

\* normalizeCart, on any payload
NormalizeCartOfAny(payload) ==
    LET raw == UnwrapCollection(Get(payload, "items")).v
        items == [k \in DOMAIN raw |-> NormalizeCartItemOfAny(raw[k])]
        summary == Or(Get(payload, "summary"), EmptyObject)
        subtotal == Or(Get(summary, "subtotal"), Or(Get(summary, "total"), Str(<<"0">>)))
        total == Or(Get(summary, "total"), Or(subtotal, Str(<<"0">>)))
    IN  IF \E k \in DOMAIN items : items[k] = Thrown THEN Thrown
        ELSE Obj([items |-> Arr(items),
                  items_count |-> SafeNumber(Or(Get(summary, "items_count"),
                                                Num(TotalQuantity(items))), 0),
                  subtotal |-> SafeText(subtotal),
                  total |-> SafeText(total)])

\* ------------------------------------- normalizers, on the cart service
\* normalizeCartItem on an item of the cart service, whose fields have their
\* declared types: the fields of a cart item the cart screen reads (the
\* product stands for its normalized Product).
NormalizeCartItem(item) ==
    [id |-> IF "id" \in DOMAIN item THEN item.id ELSE 0,
     product |-> IF "product" \in DOMAIN item THEN item.product ELSE 0,
     quantity |-> IF "quantity" \in DOMAIN item THEN item.quantity ELSE 0,
     unit_price |-> Coalesce(item, "unit_price", Coalesce(item, "price", <<"0">>)),
     subtotal |-> Coalesce(item, "subtotal", <<"0">>)]

RECURSIVE SumQuantity(_)
\* items.reduce((total, item) => total + item.quantity, 0)
SumQuantity(items) ==
    IF items = <<>> THEN 0 ELSE Head(items).quantity + SumQuantity(Tail(items))

\* normalizeCart on a body of the cart service
NormalizeCart(payload) ==
    LET raw == IF "items" \in DOMAIN payload THEN payload.items ELSE <<>>
        items == [k \in DOMAIN raw |-> NormalizeCartItem(raw[k])]
        summary == IF "summary" \in DOMAIN payload THEN payload.summary ELSE <<>>
        subtotal == Coalesce(summary, "subtotal", Coalesce(summary, "total", <<"0">>))
    IN  [items |-> items,
         items_count |-> IF "items_count" \in DOMAIN summary
                         THEN summary.items_count ELSE SumQuantity(items),
         subtotal |-> subtotal,
         total |-> Coalesce(summary, "total", subtotal)]

\* ------------------------------------------------------ CartScreen helpers
\* Number.isFinite(unitPrice) ? unitPrice : 0
SafeUnitPrice(item) ==
    LET unitPrice == ParseFloat(item.unit_price)
    IN  IF unitPrice = NaN THEN 0 ELSE unitPrice

RECURSIVE SumPrice(_)
\* items.reduce((total, item) => total + safeUnitPrice * item.quantity, 0)
SumPrice(items) ==
    IF items = <<>> THEN 0
    ELSE SafeUnitPrice(Head(items)) * Head(items).quantity + SumPrice(Tail(items))

\* calculateCartTotals
CalculateCartTotals(items) ==
    [items_count |-> SumQuantity(items),
     subtotal |-> ToFixed2(SumPrice(items)),
     total |-> ToFixed2(SumPrice(items))]

\* updateCartState: {...prev, items, ...totals}, or prev when there is no cart.
UpdateCartState(prev, items) ==
    IF prev = NullCart THEN prev
    ELSE LET totals == CalculateCartTotals(items)
         IN  [prev EXCEPT !.items = items,
                          !.items_count = totals.items_count,
                          !.subtotal = totals.subtotal,
                          !.total = totals.total]

\* The updater with the row's subtotal left as it was.
SetQuantityOnly(items, itemId, newQuantity) ==
    [k \in DOMAIN items |->
        IF items[k].id # itemId THEN items[k]
        ELSE [items[k] EXCEPT !.quantity = newQuantity]]

\* The updater listing the changed row last.
SetQuantityRelisting(items, itemId, newQuantity) ==
    LET changed == SelectSeq(items, LAMBDA item : item.id = itemId)
    IN  SelectSeq(items, LAMBDA item : item.id # itemId)
            \o [k \in DOMAIN changed |->
                   [changed[k] EXCEPT
                       !.quantity = newQuantity,
                       !.subtotal = ToFixed2(SafeUnitPrice(changed[k]) * newQuantity)]]

\* The updater of handleUpdateQuantity: items.map(...)
SetQuantity(items, itemId, newQuantity) ==
    [k \in DOMAIN items |->
        IF items[k].id # itemId THEN items[k]
        ELSE [items[k] EXCEPT !.quantity = newQuantity,
                              !.subtotal = ToFixed2(SafeUnitPrice(items[k]) * newQuantity)]]

\* The updater of handleRemoveItem: items.filter((item) => item.id !== itemId)
WithoutItem(items, itemId) == SelectSeq(items, LAMBDA item : item.id # itemId)

\* The items the screen lists: cart?.items || []
ShownItems(c) == IF c = NullCart THEN <<>> ELSE c.items

\* The item of the list with this id (the controls of a row act on it).
ItemOf(c, itemId) ==
    LET items == ShownItems(c)
    IN  items[CHOOSE k \in DOMAIN items : items[k].id = itemId]

HasItem(c, itemId) == \E k \in DOMAIN ShownItems(c) : ShownItems(c)[k].id = itemId

\* const emptyCart of CartContext
EmptyCart ==
    [items |-> <<>>, items_count |-> 0,
     subtotal |-> <<"0", ".", "0", "0">>, total |-> <<"0", ".", "0", "0">>]

\* -------------------------------------------------------- the cart service
\* The unit price the service quotes for an item.
UnitPrice(itemId) ==
    IF itemId = 1 THEN <<"1", "0", ".", "0", "0">> ELSE <<"0", ".", "9", "9">>

RECURSIVE ServerItems(_, _)
\* The raw items of the service's cart, from item id `from` on.
ServerItems(s, from) ==
    IF from \notin ItemIds THEN <<>>
    ELSE (IF s.qty[from] = 0 THEN <<>>
          ELSE <<[id |-> from, product |-> from, quantity |-> s.qty[from],
                  unit_price |-> UnitPrice(from),
                  subtotal |-> ToFixed2(ParseFloat(UnitPrice(from)) * s.qty[from])]>>)
         \o ServerItems(s, from + 1)

\* The sum the service bills, in hundredths, before the coupon.
ServerSubtotal(s) == SumPrice(ServerItems(s, 1))

\* The total the service bills: a coupon takes a tenth off.
ServerTotal(s) ==
    IF s.coupon THEN (ServerSubtotal(s) * 9) \div 10 ELSE ServerSubtotal(s)

\* The body of the response to GET /cart.
ServerPayload(s) ==
    [items |-> ServerItems(s, 1),
     summary |-> [items_count |-> SumQuantity(ServerItems(s, 1)),
                  subtotal |-> ToFixed2(ServerSubtotal(s)),
                  total |-> ToFixed2(ServerTotal(s))]]

\* The body of the response to POST /cart/coupon: the new totals, or only a message.
CouponBodies(s) ==
    {[subtotal |-> ToFixed2(ServerSubtotal(s)), total |-> ToFixed2(ServerTotal(s))],
     [message |-> "applied"]}

\* The service's cart after it accepted PUT /cart/:id {quantity},
\* DELETE /cart/:id or POST /cart/coupon.
Applied(s, kind, itemId, quantity) ==
    IF kind = "update" THEN [s EXCEPT !.qty[itemId] = quantity]
    ELSE IF kind = "remove" THEN [s EXCEPT !.qty[itemId] = 0]
    ELSE [s EXCEPT !.coupon = TRUE]

\* The service can accept the request: the item of a PUT or DELETE is in its cart.
Acceptable(s, kind, itemId) == kind \in {"update", "remove"} => s.qty[itemId] > 0

\* The Cart a fetch returns when nothing else is in flight.
AuthoritativeCart == NormalizeCart(ServerPayload(server))

\* ------------------------------------------------------------------- tasks
NoBody == [none |-> TRUE]

TaskIds == {t.id : t \in tasks}

\* The least id no task holds.
FreshId == CHOOSE n \in 1..(Cardinality(tasks) + 1) : n \notin TaskIds

\* A handler at an await. mut: the answer to its PUT, DELETE or POST ("none":
\* it sent none); get: the answer to its GET /cart, with the body resp.
NewTask(id, kind, itemId, quantity, stage, mut, get, resp) ==
    [id |-> id, kind |-> kind, item |-> itemId, qty |-> quantity, stage |-> stage,
     mut |-> mut, get |-> get, resp |-> resp, cresp |-> NoBody, caller |-> "user"]

\* fetchCart at `await checkAuth()`, called by the mount effect ("mount"),
\* handleRefresh ("pull") or the catch block of a mutation ("update", "remove").
FetchTask(id, caller) ==
    [NewTask(id, "fetch", NoItem, 0, "auth", "none", "none", NoBody)
        EXCEPT !.caller = caller]

\* The rejections of a request: 401 ("unauth"), or any other error ("err").
Rejections == {"err", "unauth"}

\* The request interceptor attaches the stored token; the service answers a
\* request without one with 401.
Answers(hasToken) == IF hasToken THEN {"ok", "err", "unauth"} ELSE Rejections

\* GET /cart with the token attached is answered with the cart or fails on its
\* way (the session is taken to expire on the requests that change the cart).
GetStatuses(hasToken) == IF hasToken THEN {"ok", "err"} ELSE {"unauth"}

\* The answers GET /cart can get from the service in state s: <<get, resp>>.
\* The body GET /cart answers with, by status.
GetBody(s, status) == IF status = "ok" THEN ServerPayload(s) ELSE NoBody

GetAnswers(s) ==
    {<<answer, GetBody(s, answer)>> : answer \in GetStatuses(token)}

\* The response interceptor on a rejected response: 401 removes the token.
TokenAfter(answers) == token /\ "unauth" \notin answers

\* The mutations (changeQuantity, removeItem) in flight on an item.
MutationsOn(itemId) ==
    {t \in tasks : t.kind \in {"update", "remove"} /\ t.item = itemId}

\* disabled={updatingItemId === item.id}, negated: the per-item query.
MutationAllowed(itemId) == updatingItemId # itemId

\* The screen shows the item list (not the loader, the sign-in prompt or the empty cart).
ListShown == mounted /\ ~isLoading /\ isAuthenticated /\ ShownItems(cart) # <<>>

\* The user can act: no Alert covers the screen, and the session is not over.
CanPress == alert = "none" /\ pressesLeft > 0

\* The quiescent states: no handler is at an await, no response is on its way.
Quiescent == tasks = {}

\* The app has started: CartProvider is mounted and the effect on [refreshCart]
\* has run refreshCart to its return (no user) or to `await getCart()`.
Started ==
    /\ token \in BOOLEAN
    /\ server = [qty |-> [i \in ItemIds |-> IF i = 1 THEN 2 ELSE 1], coupon |-> FALSE]
    /\ mounted = FALSE
    /\ cart = NullCart
    /\ ctxCart = IF token THEN NullCart ELSE EmptyCart
    /\ updatingItemId = NoItem
    /\ isApplyingCoupon = FALSE
    /\ isLoading = TRUE
    /\ isRefreshing = FALSE
    /\ isAuthenticated = FALSE
    /\ alert = "none"
    /\ \E answer \in GetAnswers(server) :
          tasks = IF token
                  THEN {NewTask(1, "refresh", NoItem, 0, "net", "none", answer[1], answer[2])}
                  ELSE {}
    /\ isAddingToCart = FALSE
    /\ clean = TRUE
    /\ currentLocale = "en"
    /\ call = NoCall
    /\ result = JsUndefined
    /\ providerMounted = FALSE
    /\ localeState = "en"
    /\ translationsState = EmptyTable
    /\ isLoadingTranslations = FALSE
    /\ localeTasks = {}
    /\ fetchesIssued = 0

\* ------------------------------------------------------------ CartContext
\* refreshCart resumed with the cart: setCart(cartData).
RefreshSucceeds(t) ==
    /\ t \in tasks /\ t.kind = "refresh" /\ t.get = "ok"
    /\ ctxCart' = NormalizeCart(t.resp)
    /\ tasks' = tasks \ {t}
    /\ UNCHANGED <<library, isAddingToCart, token, server, mounted, cart, updatingItemId, isApplyingCoupon,
                   isLoading, isRefreshing, isAuthenticated, alert, pressesLeft, clean>>

\* refreshCart resumed with a rejection: setCart(emptyCart).
RefreshFails(t) ==
    /\ t \in tasks /\ t.kind = "refresh" /\ t.get \in Rejections
    /\ ctxCart' = EmptyCart
    /\ token' = TokenAfter({t.get})
    /\ tasks' = tasks \ {t}
    /\ UNCHANGED <<library, isAddingToCart, server, mounted, cart, updatingItemId, isApplyingCoupon,
                   isLoading, isRefreshing, isAuthenticated, alert, pressesLeft, clean>>

\* ------------------------------------------------- CartScreen: the handlers
\* The user opens the cart tab, once the start-up requests have settled:
\* CartScreen mounts and its effect calls fetchCart, which runs to
\* `await checkAuth()`.
OpenCartTab ==
    /\ ~mounted /\ Quiescent
    /\ mounted' = TRUE
    /\ tasks' = {FetchTask(FreshId, "mount")}
    /\ UNCHANGED <<library, isAddingToCart, token, server, cart, ctxCart, updatingItemId, isApplyingCoupon,
                   isLoading, isRefreshing, isAuthenticated, alert, pressesLeft, clean>>

\* A fetchCart that sends GET /cart whatever checkAuth found.
FetchAlways(hasAuth) == TRUE

\* fetchCart sends GET /cart exactly when checkAuth found a token.
FetchIssued(hasAuth) == hasAuth

\* fetchCart resumed after `await checkAuth()`.
FetchAfterAuth(t) ==
    /\ t \in tasks /\ t.kind = "fetch" /\ t.stage = "auth"
    /\ isAuthenticated' = token
    /\ IF FetchIssued(token)
       THEN /\ \E status \in GetStatuses(token) :
                  tasks' = (tasks \ {t}) \cup
                           {[t EXCEPT !.stage = "net", !.get = status,
                                      !.resp = GetBody(server, status)]}
            /\ UNCHANGED <<isLoading, isRefreshing>>
       ELSE /\ tasks' = tasks \ {t}
            /\ isLoading' = FALSE
            /\ isRefreshing' = FALSE
    /\ UNCHANGED <<library, isAddingToCart, token, server, mounted, cart, ctxCart, updatingItemId,
                   isApplyingCoupon, alert, pressesLeft, clean>>

\* The Cart fetchCart shows: setCart(data), data being normalizeCart(response.data).
FetchedCart(shown, resp) == NormalizeCart(resp)

\* fetchCart resumed with the cart: setCart(data), syncCart(data), finally.
FetchSucceeds(t) ==
    /\ t \in tasks /\ t.kind = "fetch" /\ t.get = "ok"
    /\ cart' = FetchedCart(cart, t.resp)
    /\ ctxCart' = cart'
    /\ isLoading' = FALSE
    /\ isRefreshing' = FALSE
    /\ tasks' = tasks \ {t}
    /\ UNCHANGED <<library, isAddingToCart, token, server, mounted, updatingItemId, isApplyingCoupon,
                   isAuthenticated, alert, pressesLeft, clean>>

\* fetchCart resumed with a rejection: console.error, finally.
FetchFails(t) ==
    /\ t \in tasks /\ t.kind = "fetch" /\ t.get \in Rejections
    /\ token' = TokenAfter({t.get})
    /\ isLoading' = FALSE
    /\ isRefreshing' = FALSE
    /\ tasks' = tasks \ {t}
    /\ clean' = FALSE
    /\ UNCHANGED <<library, isAddingToCart, server, mounted, cart, ctxCart, updatingItemId,
                   isApplyingCoupon, isAuthenticated, alert, pressesLeft>>

\* handleRefresh, pulled on the item list.
HandleRefresh ==
    /\ ListShown /\ CanPress /\ ~isRefreshing
    /\ isRefreshing' = TRUE
    /\ tasks' = tasks \cup {FetchTask(FreshId, "pull")}
    /\ pressesLeft' = pressesLeft - 1
    /\ clean' = FALSE
    /\ UNCHANGED <<library, isAddingToCart, token, server, mounted, cart, ctxCart, updatingItemId,
                   isApplyingCoupon, isLoading, isAuthenticated, alert>>

\* A handleUpdateQuantity that shows nothing before its request.
OptimisticUpdateDeferred(c, itemId, newQuantity) == c

\* What handleUpdateQuantity shows before its request: the optimistic Cart.
OptimisticUpdate(c, itemId, newQuantity) ==
    UpdateCartState(c, SetQuantity(ShownItems(c), itemId, newQuantity))

\* A handleRemoveItem that drops the row and keeps the cart's totals.
OptimisticRemoveStaleTotals(c, itemId) ==
    IF c = NullCart THEN c ELSE [c EXCEPT !.items = WithoutItem(c.items, itemId)]

\* What handleRemoveItem shows before its request.
OptimisticRemove(c, itemId) ==
    UpdateCartState(c, WithoutItem(ShownItems(c), itemId))

\* handleUpdateQuantity / handleRemoveItem from the optimistic apply to the
\* await: updateCartState (with syncCart), setUpdatingItemId(itemId), and the
\* request sent, which the service accepts or not.
\* caller: the user's press, or handleUpdateQuantity calling handleRemoveItem.
IssueMutation(kind, itemId, quantity, optimistic, caller) ==
    /\ cart' = optimistic
    /\ ctxCart' = IF cart = NullCart THEN ctxCart ELSE optimistic
    /\ updatingItemId' = itemId
    /\ \E answer \in Answers(token) :
          /\ answer = "ok" => Acceptable(server, kind, itemId)
          /\ server' = IF answer = "ok" THEN Applied(server, kind, itemId, quantity)
                        ELSE server
          /\ tasks' = tasks \cup
                {[NewTask(FreshId, kind, itemId, quantity, "net", answer, "none", NoBody)
                    EXCEPT !.caller = caller]}
    /\ pressesLeft' = pressesLeft - 1
    /\ clean' = (clean /\ MutationsOn(itemId) = {})
    /\ UNCHANGED <<library, isAddingToCart, token, mounted, isApplyingCoupon, isLoading, isRefreshing,
                   isAuthenticated, alert>>

\* A handleUpdateQuantity whose guard is `newQuantity < 0`.
HandleUpdateQuantityFromZero(itemId, change) ==
    /\ ListShown /\ CanPress
    /\ HasItem(cart, itemId) /\ MutationAllowed(itemId)
    /\ LET currentQuantity == ItemOf(cart, itemId).quantity
           newQuantity == currentQuantity + change
       IN  /\ newQuantity <= MaxQty
           /\ IF newQuantity < 0
              THEN /\ IssueMutation("remove", itemId, 0, OptimisticRemove(cart, itemId),
                                    "handleUpdateQuantity")
              ELSE /\ IssueMutation("update", itemId, newQuantity,
                                    OptimisticUpdate(cart, itemId, newQuantity), "user")

\* A handleUpdateQuantity without the guard on quantities below 1.
HandleUpdateQuantityUnguarded(itemId, change) ==
    /\ ListShown /\ CanPress
    /\ HasItem(cart, itemId) /\ MutationAllowed(itemId)
    /\ LET currentQuantity == ItemOf(cart, itemId).quantity
           newQuantity == currentQuantity + change
       IN  /\ newQuantity <= MaxQty
           /\ IssueMutation("update", itemId, newQuantity,
                            OptimisticUpdate(cart, itemId, newQuantity),
                            IF newQuantity < 1 THEN "handleUpdateQuantity" ELSE "user")

\* handleUpdateQuantity(item.id, item.quantity, change), pressed on a row of the
\* list, to its await: below 1 it is handleRemoveItem(itemId).
HandleUpdateQuantity(itemId, change) ==
    /\ ListShown /\ CanPress
    /\ HasItem(cart, itemId) /\ MutationAllowed(itemId)
    /\ LET currentQuantity == ItemOf(cart, itemId).quantity
           newQuantity == currentQuantity + change
       IN  /\ newQuantity <= MaxQty
           /\ IF newQuantity < 1
              THEN /\ IssueMutation("remove", itemId, 0, OptimisticRemove(cart, itemId),
                                    "handleUpdateQuantity")
              ELSE /\ IssueMutation("update", itemId, newQuantity,
                                    OptimisticUpdate(cart, itemId, newQuantity), "user")

\* handleRemoveItem(item.id), pressed on a row of the list, to its await.
HandleRemoveItem(itemId) ==
    /\ ListShown /\ CanPress
    /\ HasItem(cart, itemId) /\ MutationAllowed(itemId)
    /\ IssueMutation("remove", itemId, 0, OptimisticRemove(cart, itemId), "user")

\* updateCartItem / removeFromCart resumed after `await api.put` /
\* `await api.delete`: `return getCart()` sends GET /cart.
MutationAccepted(t) ==
    /\ t \in tasks /\ t.kind \in {"update", "remove"}
    /\ t.mut = "ok" /\ t.get = "none"
    /\ \E status \in GetStatuses(token) :
          tasks' = (tasks \ {t}) \cup
                   {[t EXCEPT !.get = status, !.resp = GetBody(server, status)]}
    /\ UNCHANGED <<library, isAddingToCart, token, server, mounted, cart, ctxCart, updatingItemId,
                   isApplyingCoupon, isLoading, isRefreshing, isAuthenticated, alert,
                   pressesLeft, clean>>

\* A confirmation that keeps the totals computed on the device.
ConfirmedCartLocalTotals(optimistic, resp) ==
    [NormalizeCart(resp) EXCEPT !.items_count = optimistic.items_count,
                                !.subtotal = optimistic.subtotal,
                                !.total = optimistic.total]

\* The Cart shown when a mutation's request and its cart fetch succeeded:
\* setCart(updatedCart), updatedCart being getCart()'s normalizeCart(response.data).
ConfirmedCart(optimistic, resp) == NormalizeCart(resp)

\* handleUpdateQuantity / handleRemoveItem resumed with the updated cart:
\* setCart, syncCart, and the finally block.
MutationSucceeds(t) ==
    /\ t \in tasks /\ t.kind \in {"update", "remove"}
    /\ t.get = "ok"
    /\ cart' = ConfirmedCart(cart, t.resp)
    /\ ctxCart' = cart'
    /\ updatingItemId' = NoItem
    /\ tasks' = tasks \ {t}
    /\ UNCHANGED <<library, isAddingToCart, token, server, mounted, isApplyingCoupon, isLoading, isRefreshing,
                   isAuthenticated, alert, pressesLeft, clean>>

\* The tasks after a mutation failed: the catch block calls fetchCart(), which
\* runs to its `await checkAuth()`, and the handler goes on without awaiting it.
RollbackTasks(t) == (tasks \ {t}) \cup {FetchTask(t.id, t.kind)}

\* A handler that drops a rejected mutation: no re-fetch, no Alert.
MutationFailsSilently(t) ==
    /\ t \in tasks /\ t.kind \in {"update", "remove"}
    /\ t.mut \in Rejections \/ t.get \in Rejections
    /\ token' = TokenAfter({t.mut, t.get})
    /\ tasks' = tasks \ {t}
    /\ updatingItemId' = NoItem
    /\ clean' = FALSE
    /\ UNCHANGED <<library, isAddingToCart, server, mounted, cart, ctxCart, isApplyingCoupon,
                   isLoading, isRefreshing, isAuthenticated, alert, pressesLeft>>

\* handleUpdateQuantity / handleRemoveItem resumed with a rejection (of the
\* mutation request or of the cart fetch after it): catch and finally.
MutationFails(t) ==
    /\ t \in tasks /\ t.kind \in {"update", "remove"}
    /\ t.mut \in Rejections \/ t.get \in Rejections
    /\ token' = TokenAfter({t.mut, t.get})
    /\ tasks' = RollbackTasks(t)
    /\ alert' = IF t.kind = "update" THEN "update_failed" ELSE "remove_failed"
    /\ updatingItemId' = NoItem
    /\ clean' = FALSE
    /\ UNCHANGED <<library, isAddingToCart, server, mounted, cart, ctxCart, isApplyingCoupon, isLoading,
                   isRefreshing, isAuthenticated, pressesLeft>>

\* ------------------------------------------- ProductDetailScreen: add to cart
\* The service's cart after it accepted POST /cart {product_id, quantity: 1}:
\* one more of the product (the cart item of a product bears its id).
Added(s, productId) == [s EXCEPT !.qty[productId] = @ + 1]

\* handleAddToCart, pressed on the product screen, to `await getAuthToken()`.
HandleAddToCart(productId) ==
    /\ CanPress /\ ~isAddingToCart
    /\ tasks' = tasks \cup
          {NewTask(FreshId, "add", productId, 1, "auth", "none", "none", NoBody)}
    /\ pressesLeft' = pressesLeft - 1
    /\ clean' = FALSE
    /\ UNCHANGED <<library, token, server, mounted, cart, ctxCart, updatingItemId,
                   isApplyingCoupon, isLoading, isRefreshing, isAuthenticated, alert,
                   isAddingToCart>>

\* handleAddToCart resumed with the stored token: without one the sign-in
\* Alert and return; with one setIsAddingToCart(true) and addToCart runs to
\* `await api.post('/cart')`, which the service accepts or not.
AddAfterAuth(t) ==
    /\ t \in tasks /\ t.kind = "add" /\ t.stage = "auth"
    /\ IF ~token
       THEN /\ alert' = "sign_in_required"
            /\ tasks' = tasks \ {t}
            /\ UNCHANGED <<server, isAddingToCart>>
       ELSE /\ isAddingToCart' = TRUE
            /\ \E answer \in Answers(token) :
                  /\ answer = "ok" => server.qty[t.item] < MaxQty
                  /\ server' = IF answer = "ok" THEN Added(server, t.item) ELSE server
                  /\ tasks' = (tasks \ {t}) \cup
                                {[t EXCEPT !.stage = "net", !.mut = answer]}
            /\ UNCHANGED alert
    /\ UNCHANGED <<library, token, mounted, cart, ctxCart, updatingItemId,
                   isApplyingCoupon, isLoading, isRefreshing, isAuthenticated,
                   pressesLeft, clean>>

\* addToCart resumed after `await api.post`: `return getCart()` sends GET /cart.
AddAccepted(t) ==
    /\ t \in tasks /\ t.kind = "add" /\ t.stage = "net"
    /\ t.mut = "ok" /\ t.get = "none"
    /\ \E answer \in GetAnswers(server) :
          tasks' = (tasks \ {t}) \cup {[t EXCEPT !.get = answer[1], !.resp = answer[2]]}
    /\ UNCHANGED <<library, token, server, mounted, cart, ctxCart, updatingItemId,
                   isApplyingCoupon, isLoading, isRefreshing, isAuthenticated, alert,
                   pressesLeft, isAddingToCart, clean>>

\* handleAddToCart resumed with the cart: syncCart(cart), the success Alert,
\* finally.
AddSucceeds(t) ==
    /\ t \in tasks /\ t.kind = "add" /\ t.get = "ok"
    /\ ctxCart' = NormalizeCart(t.resp)
    /\ alert' = "added"
    /\ isAddingToCart' = FALSE
    /\ tasks' = tasks \ {t}
    /\ UNCHANGED <<library, token, server, mounted, cart, updatingItemId,
                   isApplyingCoupon, isLoading, isRefreshing, isAuthenticated,
                   pressesLeft, clean>>

\* handleAddToCart resumed with a rejection (of POST /cart or of the cart
\* fetch after it): the error Alert, finally.
AddFails(t) ==
    /\ t \in tasks /\ t.kind = "add"
    /\ t.mut \in Rejections \/ t.get \in Rejections
    /\ token' = TokenAfter({t.mut, t.get})
    /\ alert' = "add_failed"
    /\ isAddingToCart' = FALSE
    /\ tasks' = tasks \ {t}
    /\ UNCHANGED <<library, server, mounted, cart, ctxCart, updatingItemId,
                   isApplyingCoupon, isLoading, isRefreshing, isAuthenticated,
                   pressesLeft, clean>>

\* ---------------------------------------------------------------- coupons
\* applyCoupon's result: {...cart, subtotal: String(couponData.subtotal ??
\* cart.subtotal), total: String(couponData.total ?? cart.total)}, where cart
\* is normalizeCart of the GET /cart sent along with the coupon.
ApplyCouponResult(cartBody, couponData) ==
    LET fetched == NormalizeCart(cartBody)
    IN  [fetched EXCEPT !.subtotal = Coalesce(couponData, "subtotal", fetched.subtotal),
                        !.total = Coalesce(couponData, "total", fetched.total)]

\* The Cart handleApplyCoupon shows while it awaits applyCoupon: it sets none.
CartWhileApplying(shown) == shown

\* handleApplyCoupon to `await applyCoupon(couponCode)`, pressed with a code
\* typed in (the button is disabled on a blank code): Promise.all sends
\* GET /cart and POST /cart/coupon, which the service handles in either order.
HandleApplyCoupon ==
    /\ ListShown /\ CanPress /\ ~isApplyingCoupon
    /\ isApplyingCoupon' = TRUE
    /\ cart' = CartWhileApplying(cart)
    /\ \E post \in Answers(token), getFirst \in BOOLEAN :
          /\ server' = IF post = "ok" THEN Applied(server, "coupon", NoItem, 0) ELSE server
          /\ \E answer \in GetAnswers(IF getFirst THEN server ELSE server'),
                body \in (IF post = "ok" THEN CouponBodies(server') ELSE {NoBody}) :
                tasks' = tasks \cup
                    {[NewTask(FreshId, "coupon", NoItem, 0, "net", post, answer[1], answer[2])
                      EXCEPT !.cresp = body]}
    /\ pressesLeft' = pressesLeft - 1
    /\ clean' = FALSE
    /\ UNCHANGED <<library, isAddingToCart, token, mounted, ctxCart, updatingItemId, isLoading, isRefreshing,
                   isAuthenticated, alert>>

\* handleApplyCoupon resumed with the merged cart (both responses arrived).
CouponResolves(t) ==
    /\ t \in tasks /\ t.kind = "coupon"
    /\ t.mut = "ok" /\ t.get = "ok"
    /\ cart' = ApplyCouponResult(t.resp, t.cresp)
    /\ ctxCart' = cart'
    /\ alert' = "coupon_applied"
    /\ isApplyingCoupon' = FALSE
    /\ tasks' = tasks \ {t}
    /\ UNCHANGED <<library, isAddingToCart, token, server, mounted, updatingItemId, isLoading, isRefreshing,
                   isAuthenticated, pressesLeft, clean>>

\* The Cart handleApplyCoupon shows after a rejection: it sets none.
CartAfterCouponError(shown) == shown

\* handleApplyCoupon resumed with the rejection of Promise.all: catch, finally.
CouponRejects(t) ==
    /\ t \in tasks /\ t.kind = "coupon"
    /\ t.mut \in Rejections \/ t.get \in Rejections
    /\ token' = TokenAfter({t.mut, t.get})
    /\ cart' = CartAfterCouponError(cart)
    /\ alert' = "coupon_failed"
    /\ isApplyingCoupon' = FALSE
    /\ tasks' = tasks \ {t}
    /\ UNCHANGED <<library, isAddingToCart, server, mounted, ctxCart, updatingItemId, isLoading,
                   isRefreshing, isAuthenticated, pressesLeft, clean>>

\* The user dismisses the Alert.
DismissAlert ==
    /\ alert # "none"
    /\ alert' = "none"
    /\ UNCHANGED <<library, isAddingToCart, token, server, mounted, cart, ctxCart, updatingItemId,
                   isApplyingCoupon, isLoading, isRefreshing, isAuthenticated, tasks,
                   pressesLeft, clean>>

\* ----------------------------------------------------------- specification
Next ==
    \/ OpenCartTab
    \/ \E itemId \in ItemIds, change \in {-1, 1} : HandleUpdateQuantity(itemId, change)
    \/ \E itemId \in ItemIds : HandleRemoveItem(itemId)
    \/ HandleRefresh
    \/ HandleApplyCoupon
    \/ DismissAlert
    \/ \E t \in tasks : RefreshSucceeds(t)
    \/ \E t \in tasks : RefreshFails(t)
    \/ \E t \in tasks : FetchAfterAuth(t)
    \/ \E t \in tasks : FetchSucceeds(t)
    \/ \E t \in tasks : FetchFails(t)
    \/ \E t \in tasks : MutationAccepted(t)
    \/ \E t \in tasks : MutationSucceeds(t)
    \/ \E t \in tasks : MutationFails(t)
    \/ \E t \in tasks : CouponResolves(t)
    \/ \E t \in tasks : CouponRejects(t)

Init == Started /\ pressesLeft = MaxPresses

Spec == Init /\ [][Next]_vars

\* The sessions in which the user, the cart loaded, only changes quantities
\* and removes items.
NextMutations ==
    \/ OpenCartTab
    \/ \E itemId \in ItemIds, change \in {-1, 1} : HandleUpdateQuantity(itemId, change)
    \/ \E itemId \in ItemIds : HandleRemoveItem(itemId)
    \/ DismissAlert
    \/ \E t \in tasks : RefreshSucceeds(t)
    \/ \E t \in tasks : RefreshFails(t)
    \/ \E t \in tasks : FetchAfterAuth(t)
    \/ \E t \in tasks : FetchSucceeds(t)
    \/ \E t \in tasks : FetchFails(t)
    \/ \E t \in tasks : MutationAccepted(t)
    \/ \E t \in tasks : MutationSucceeds(t)
    \/ \E t \in tasks : MutationFails(t)

InitMutations == Started /\ pressesLeft = MaxMutations

SpecMutations == InitMutations /\ [][NextMutations]_vars

\* The session of mutations watched to its end: the event loop resumes every
\* handler whose response has arrived, and the service answers every request.
Resumption ==
    /\ WF_vars(\E t \in tasks : RefreshSucceeds(t))
    /\ WF_vars(\E t \in tasks : RefreshFails(t))
    /\ WF_vars(\E t \in tasks : FetchAfterAuth(t))
    /\ WF_vars(\E t \in tasks : FetchSucceeds(t))
    /\ WF_vars(\E t \in tasks : FetchFails(t))
    /\ WF_vars(\E t \in tasks : MutationAccepted(t))
    /\ WF_vars(\E t \in tasks : MutationSucceeds(t))
    /\ WF_vars(\E t \in tasks : MutationFails(t))

InitCompletion == Started /\ pressesLeft = MaxIssued

SpecCompletion == InitCompletion /\ [][NextMutations]_vars /\ Resumption

\* The cart screen and the product screen: the mutations of the cart and
\* the fetches they start.
NextCartMutations ==
    \/ OpenCartTab
    \/ \E itemId \in ItemIds, change \in {-1, 1} : HandleUpdateQuantity(itemId, change)
    \/ \E itemId \in ItemIds : HandleRemoveItem(itemId)
    \/ DismissAlert
    \/ \E t \in tasks : RefreshSucceeds(t)
    \/ \E t \in tasks : RefreshFails(t)
    \/ \E t \in tasks : FetchAfterAuth(t)
    \/ \E t \in tasks : FetchSucceeds(t)
    \/ \E t \in tasks : FetchFails(t)
    \/ \E t \in tasks : MutationAccepted(t)
    \/ \E t \in tasks : MutationSucceeds(t)
    \/ \E t \in tasks : MutationFails(t)
    \/ \E productId \in ItemIds : HandleAddToCart(productId)
    \/ \E t \in tasks : AddAfterAuth(t)
    \/ \E t \in tasks : AddAccepted(t)
    \/ \E t \in tasks : AddSucceeds(t)
    \/ \E t \in tasks : AddFails(t)

SpecCartMutations == Init /\ [][NextCartMutations]_vars

\* ------------------------------------------------ the data layer, called
\* The functions of the data layer are pure but for the locale; each action
\* below is one call of one of them, on an input a response or a caller can
\* hand it, and records the input, the locale of the moment, whether the
\* input was itself an output of the function, and what the call returned
\* or threw.
Called(fn, input, output) ==
    /\ call' = [fn |-> fn, input |-> input, locale |-> currentLocale,
                canonical |-> FALSE]
    /\ result' = output
    /\ UNCHANGED <<shop, currentLocale, provider>>

\* "1", " TRUE ", ... : strings in the spellings servers use for flags.
ToBoolInputs ==
    {Bool(TRUE), Bool(FALSE), Num(0), Num(1), Num(2), JsNaN, JsNull, JsUndefined,
     EmptyObject, Arr(<<>>), Str(<<>>), Str(<<" ", " ">>)}
    \cup {Str(w) : w \in {<<"1">>, <<"0">>, <<"t", "r", "u", "e">>, <<" ", "T", "R", "U", "E", " ">>, <<"Y", "e", "s">>, <<"o", "n">>, <<"O", "N", " ">>, <<"f", "a", "l", "s", "e">>,
                          <<"F", "a", "l", "s", "e">>, <<"n", "o">>, <<" ", "o", "f", "f">>, <<"m", "a", "y", "b", "e">>, <<"2">>, <<" ", "1">>}}

CallToBool == \E x \in ToBoolInputs : Called("toBool", x, ToBool(x))

CollectionInputs ==
    {Arr(<<>>), Arr(<<Num(1), Num(2)>>), Obj([data |-> Arr(<<Num(1), Num(2)>>)]),
     Obj([data |-> Arr(<<>>)]), Obj([data |-> Str(<<"x">>)]), Obj([data |-> JsNull]),
     Obj([data |-> Obj([data |-> Arr(<<Num(1)>>)])]),
     Obj([items |-> Arr(<<Num(1)>>)]), EmptyObject, JsNull, JsUndefined,
     Num(0), Num(1), Str(<<>>), Str(<<"x">>), Bool(TRUE)}

CallUnwrapCollection ==
    \E x \in CollectionInputs : Called("unwrapCollection", x, UnwrapCollection(x))

CallEndpointsUnwrapCollection ==
    \E x \in CollectionInputs :
        Called("endpoints.unwrapCollection", x, EndpointsUnwrapCollection(x))

\* One-letter texts stand for the names and their translations.
Text(c) == Str(<<c>>)

\* Sources in the shapes the API and the screens hand getLocalizedField: a
\* plain name, name_<locale> columns, a name that is a map by locale, a
\* translations or i18n container, and values that are not objects at all.
LocalizedSources ==
    {JsNull, JsUndefined, Num(0), EmptyObject,
     Obj([name |-> Text("A")]),
     Obj([name |-> Text("A"), name_fr |-> Text("B")]),
     Obj([name |-> Text("A"), name_ar |-> Text("X")]),
     Obj([name |-> Str(<<>>)]),
     Obj([name |-> Str(<<>>), name_fr |-> Str(<<>>)]),
     Obj([name |-> Str(<<>>), translations |-> Obj([fr |-> Obj([name |-> Text("T")])])]),
     Obj([name |-> Text("A"), translations |-> Obj([fr |-> Obj([name |-> Text("T")])])]),
     Obj([name |-> Obj([fr |-> Text("M"), en |-> Text("E")])]),
     Obj([name |-> Obj([en |-> Text("E")])]),
     Obj([name |-> Obj([de |-> Text("D")])]),
     Obj([name |-> Obj([fr |-> Str(<<>>), en |-> Text("E")])]),
     Obj([name |-> Obj([de |-> Text("D")]),
          translations |-> Obj([fr |-> Obj([name |-> Text("T")])])]),
     Obj([translations |-> Obj([fr |-> Obj([name |-> Text("T")])])]),
     Obj([i18n |-> Obj([fr |-> Obj([name |-> Text("T")])])]),
     Obj([translations |-> EmptyObject, i18n |-> Obj([fr |-> Obj([name |-> Text("T")])])]),
     Obj([name |-> JsNull, i18n |-> Obj([ar |-> Obj([name |-> Text("T")])])]),
     Obj([name |-> Num(5)])}

\* getLocalizedField(source, 'name', fallback)
CallGetLocalizedField ==
    \E source \in LocalizedSources, fallback \in {Text("F"), Str(<<>>)} :
        Called("getLocalizedField", Obj([source |-> source, fallback |-> fallback]),
               GetLocalizedField(source, "name", fallback))

\* What a response can carry where an image path is expected.
ImagePaths ==
    {JsNull, JsUndefined, Str(<<>>), Num(0), Num(5), Bool(TRUE), EmptyObject,
     Arr(<<>>)}
    \cup {Str(w) : w \in {<<"a", ".", "p", "n", "g">>, <<"/", "a", ".", "p", "n", "g">>, <<"/", "s", "t", "o", "r", "a", "g", "e", "/", "a", ".", "p", "n", "g">>, <<"h", "t", "t", "p", ":", "/", "/", "l", "o", "c", "a", "l", "h", "o", "s", "t", ":", "8", "0", "0", "0", "/", "s", "t", "o", "r", "a", "g", "e", "/", "a", ".", "p", "n", "g">>,
                          <<"h", "t", "t", "p", ":", "/", "/", "1", "0", ".", "0", ".", "2", ".", "2", "/", "a", ".", "p", "n", "g", "?", "v", "=", "1">>, <<"h", "t", "t", "p", "s", ":", "/", "/", "c", "d", "n", ".", "i", "o", "/", "a", ".", "p", "n", "g">>, <<"h", "t", "t", "p", "s", ":", "/", "/", "c", "d", "n", ".", "i", "o">>,
                          <<"h", "t", "t", "p", "x">>, <<"h", "t", "t", "p", ":", "/", "/", "1", "2", "7", ".", "0", ".", "0", ".", "1">>}}

CallGetImageUrl == \E path \in ImagePaths : Called("getImageUrl", path, GetImageUrl(path))

\* Raw categories: well formed, bare, nested, and with values of other
\* types where paths and names are expected.
RawCategories ==
    {JsNull, JsUndefined, EmptyObject, Num(1), Str(<<"c">>),
     Obj([id |-> Num(1), name |-> Text("A"), slug |-> Text("a"),
          image |-> Str(<<"a", ".", "p", "n", "g">>), hero_images |-> Arr(<<Str(<<"a", ".", "p", "n", "g">>), JsNull>>)]),
     Obj([id |-> Num(1), name |-> Text("A"), image_url |-> Str(<<"h", "t", "t", "p", "s", ":", "/", "/", "c", "d", "n", ".", "i", "o", "/", "a", ".", "p", "n", "g">>),
          image |-> Num(5), parent_id |-> Num(2), products_count |-> Num(3)]),
     Obj([id |-> Num(1), name |-> Text("A"), image |-> Num(5)]),
     Obj([id |-> Num(1), name |-> Text("A"), hero_images |-> Arr(<<Num(5)>>)]),
     Obj([id |-> Num(1), name |-> Text("A"), hero_images |-> Str(<<"a", ".", "p", "n", "g">>)]),
     Obj([id |-> Num(1), name |-> Num(5), name_ar |-> Text("X"), icon |-> Bool(TRUE)]),
     Obj([id |-> Num(1), name |-> Text("A"),
          children |-> Arr(<<Obj([id |-> Num(2), name |-> Text("B")])>>)]),
     Obj([id |-> Num(1), name |-> Text("A"),
          children |-> Obj([data |-> Arr(<<Obj([id |-> Num(2), image |-> Bool(TRUE)])>>)])])}

\* A normalizer called on a raw input, or called again on what it returned
\* for one (a payload re-normalized after a merge or a refresh): `once` is
\* what it returns for raw, `twice` what it returns for once.
CallNormalizer(fn, raw, once, twice) ==
    \E again \in BOOLEAN :
        /\ again => once # Thrown
        /\ call' = [fn |-> fn, input |-> IF again THEN once ELSE raw,
                    locale |-> currentLocale, canonical |-> again]
        /\ result' = IF again THEN twice ELSE once
        /\ UNCHANGED <<shop, currentLocale, provider>>

CallNormalizeCategory ==
    \E category \in RawCategories :
        CallNormalizer("normalizeCategory", category, NormalizeCategory(category),
                       NormalizeCategory(NormalizeCategory(category)))

RawVendors ==
    {JsNull, EmptyObject,
     Obj([id |-> Num(1), store_name |-> Text("S"), name |-> Text("V"),
          status |-> Str(<<"a", "p", "p", "r", "o", "v", "e", "d">>)]),
     Obj([id |-> Num(1), name |-> Text("V"), is_verified |-> Str(<<"1">>),
          logo |-> Str(<<"l", ".", "p", "n", "g">>), cover_image_url |-> Str(<<"h", "t", "t", "p", "s", ":", "/", "/", "c", "d", "n", ".", "i", "o", "/", "c", ".", "p", "n", "g">>)]),
     Obj([id |-> Num(1), name |-> Text("V"), is_verified |-> JsNull, status |-> Text("p")]),
     Obj([id |-> Num(1), name |-> Text("V"), logo |-> Num(5)])}

CallNormalizeVendor ==
    \E vendor \in RawVendors :
        CallNormalizer("normalizeVendor", vendor, NormalizeVendor(vendor),
                       NormalizeVendor(NormalizeVendor(vendor)))

RawVariants ==
    {JsNull, EmptyObject, Obj([id |-> Num(7)]),
     Obj([id |-> Num(7), name |-> Text("V"), size |-> Text("M"), color |-> Text("R"),
          sku |-> Text("k"), price |-> Str(<<"9", ".", "9", "9">>), stock |-> Str(<<"3">>)]),
     Obj([id |-> Num(7), size |-> Text("M"), stock |-> Num(2)]),
     Obj([id |-> Num(7), name |-> Text("V"), stock |-> Num(0 - 3)]),
     Obj([id |-> Num(7), name |-> Text("V"), stock |-> Str(<<"-", "1">>)]),
     Obj([id |-> Num(7), name |-> Text("V"), stock |-> Text("n")]),
     Obj([id |-> Num(7), name |-> Text("V"), effective_price |-> Str(<<"5", ".", "0", "0">>),
          price |-> Str(<<"9", ".", "9", "9">>), compare_price |-> Str(<<"1", "2", ".", "0", "0">>), stock |-> Num(0)])}

CallNormalizeProductVariant ==
    \E variant \in RawVariants :
        CallNormalizer("normalizeProductVariant", variant, NormalizeProductVariant(variant),
                       NormalizeProductVariant(NormalizeProductVariant(variant)))

\* The product of the worked example: {id: 5, name: "Shoe", name_ar: X,
\* price: "49.99", in_stock: "1", variants: []}.
Shoe ==
    Obj([id |-> Num(5), name |-> Str(<<"S", "h", "o", "e">>), name_ar |-> Text("X"),
         price |-> Str(<<"4", "9", ".", "9", "9">>), in_stock |-> Str(<<"1">>), variants |-> Arr(<<>>)])

RawProducts ==
    {JsNull, EmptyObject, Shoe,
     Obj([id |-> Num(5), name |-> Text("A"), base_price |-> Str(<<"9", ".", "9", "9">>),
          category |-> Obj([id |-> Num(1), name |-> Text("C")]),
          vendor |-> Obj([id |-> Num(2), store_name |-> Text("S")]),
          images |-> Arr(<<Str(<<"a", ".", "p", "n", "g">>)>>),
          variants |-> Obj([data |-> Arr(<<Obj([id |-> Num(7), size |-> Text("M"),
                                                stock |-> Num(2)])>>)])]),
     Obj([id |-> Num(5), name |-> Text("A"), category |-> JsNull,
          is_wishlisted |-> Num(1), is_active |-> Str(<<"n", "o">>),
          variants |-> Arr(<<Obj([id |-> Num(7), stock |-> Num(0)])>>)]),
     Obj([id |-> Num(5), name |-> Str(<<>>), description |-> Text("D"),
          translations |-> Obj([fr |-> Obj([name |-> Text("T")])]),
          thumbnail |-> Str(<<"/", "s", "t", "o", "r", "a", "g", "e", "/", "t", ".", "p", "n", "g">>), in_stock |-> Bool(FALSE)]),
     Obj([id |-> Num(5), name |-> Text("A"), images |-> Arr(<<Num(5)>>)]),
     Obj([id |-> Num(5), name |-> Text("A"), thumbnail |-> Bool(TRUE)]),
     Obj([id |-> Num(5), name |-> Text("A"), in_stock |-> JsNull,
          variants |-> Arr(<<Obj([id |-> Num(7), stock |-> Num(2)])>>)])}

CallNormalizeProduct ==
    \E product \in RawProducts :
        CallNormalizer("normalizeProduct", product, NormalizeProduct(product),
                       NormalizeProduct(NormalizeProduct(product)))

RawCartItems ==
    {JsNull, EmptyObject,
     Obj([id |-> Num(1), product |-> Shoe,
          variant |-> Obj([id |-> Num(7), size |-> Text("M"), stock |-> Num(2)]),
          quantity |-> Num(2), unit_price |-> Str(<<"1", "0", ".", "0", "0">>), subtotal |-> Str(<<"2", "0", ".", "0", "0">>)]),
     Obj([id |-> Num(2), product |-> Shoe, variant |-> JsNull,
          quantity |-> Num(1), unit_price |-> Str(<<"0", ".", "9", "9">>), subtotal |-> Str(<<"0", ".", "9", "9">>)]),
     Obj([id |-> Num(5), product |-> Shoe, quantity |-> Num(0 - 1)]),
     Obj([id |-> Num(3), quantity |-> Str(<<"2">>), price |-> Str(<<"1", "0", ".", "0", "0">>)]),
     Obj([id |-> Num(4), product |-> Obj([id |-> Num(5), images |-> Arr(<<Num(5)>>)]),
          quantity |-> Num(1)])}

CallNormalizeCartItem ==
    \E item \in RawCartItems :
        CallNormalizer("normalizeCartItem", item, NormalizeCartItemOfAny(item),
                       NormalizeCartItemOfAny(NormalizeCartItemOfAny(item)))

\* A raw item of item id `id` in the given quantity.
RawItem(id, quantity) ==
    Obj([id |-> Num(id), product |-> Shoe, variant |-> JsNull, quantity |-> Num(quantity),
         unit_price |-> Str(<<"1", "0", ".", "0", "0">>), subtotal |-> Str(ToFixed2(1000 * quantity))])

\* Payloads of GET /cart: with the summary of the service, with a summary
\* that counts the lines, without one, wrapped in data, and malformed.
RawCarts ==
    {JsNull, EmptyObject, Str(<<"x">>),
     Obj([items |-> Arr(<<>>), summary |-> Obj([items_count |-> Num(0),
                                                 subtotal |-> Str(<<"0", ".", "0", "0">>),
                                                 total |-> Str(<<"0", ".", "0", "0">>)])]),
     Obj([items |-> Arr(<<RawItem(1, 2), RawItem(2, 1)>>),
          summary |-> Obj([items_count |-> Num(3), subtotal |-> Str(<<"3", "0", ".", "0", "0">>),
                           total |-> Str(<<"2", "7", ".", "0", "0">>)])]),
     Obj([items |-> Arr(<<RawItem(1, 2), RawItem(2, 1)>>),
          summary |-> Obj([items_count |-> Num(2), subtotal |-> Str(<<"3", "0", ".", "0", "0">>)])]),
     Obj([items |-> Arr(<<RawItem(1, 2)>>)]),
     Obj([items |-> Obj([data |-> Arr(<<RawItem(1, 1)>>)]),
          summary |-> Obj([total |-> Str(<<"1", "0", ".", "0", "0">>)])]),
     Obj([items |-> Arr(<<RawItem(1, 3)>>), summary |-> Obj([items_count |-> Text("n")])]),
     Obj([items |-> Arr(<<Obj([id |-> Num(4), quantity |-> Num(1),
                               product |-> Obj([thumbnail |-> Num(5)])])>>)])}

CallNormalizeCart ==
    \E payload \in RawCarts :
        CallNormalizer("normalizeCart", payload, NormalizeCartOfAny(payload),
                       NormalizeCartOfAny(NormalizeCartOfAny(payload)))

\* What a caller can hand setCurrentLocale.
Locales == {"en", "ar", "fr", "de", ""}

\* A locale code as the argument of a call.
LocaleCode(locale) == [t |-> "locale", v |-> locale]

\* setCurrentLocale(locale): currentLocale = locale || 'en'
SetCurrentLocaleTo(locale) ==
    /\ currentLocale' = (IF locale # "" THEN locale ELSE "en")
    /\ call' = [fn |-> "setCurrentLocale", input |-> LocaleCode(locale),
                locale |-> currentLocale, canonical |-> FALSE]
    /\ result' = JsUndefined

\* setCurrentLocale, called with any locale code
SetCurrentLocale ==
    \E locale \in Locales :
        /\ SetCurrentLocaleTo(locale)
        /\ UNCHANGED <<shop, provider>>

\* ------------------------------------------------- LocalizationProvider
\* The table GET /translations/:locale answers with.
TranslationsFor(locale) == [hello |-> "hello (" \o locale \o ")"]

\* The effect on [locale]: setCurrentLocale(locale), then fetchTranslations
\* up to its await: setIsLoading(true) and the request sent. `waiting` are
\* the handlers left at their await.
LocaleEffect(locale, waiting) ==
    /\ SetCurrentLocaleTo(locale)
    /\ isLoadingTranslations' = TRUE
    /\ fetchesIssued' = fetchesIssued + 1
    /\ localeTasks' = waiting \cup
            {[kind |-> "translations", id |-> fetchesIssued + 1, locale |-> locale]}

\* The first render: both effects run, loadLocale up to
\* `await AsyncStorage.getItem`, the effect on [locale] with 'en'.
MountProvider ==
    /\ ~providerMounted
    /\ providerMounted' = TRUE
    /\ LocaleEffect(localeState, {[kind |-> "load", id |-> 0, locale |-> ""]})
    /\ UNCHANGED <<shop, localeState, translationsState>>

\* loadLocale from its await: setLocaleState(saved) when a locale was saved
\* (saved is "" when none was, or when getItem threw); a changed locale runs
\* the effect on [locale].
LoadLocaleResumes(t) ==
    /\ t \in localeTasks /\ t.kind = "load"
    /\ \E saved \in Locales :
          IF saved # "" /\ saved # localeState
          THEN /\ fetchesIssued < MaxFetches
               /\ localeState' = saved
               /\ LocaleEffect(saved, localeTasks \ {t})
               /\ UNCHANGED <<shop, providerMounted, translationsState>>
          ELSE /\ localeTasks' = localeTasks \ {t}
               /\ UNCHANGED <<shop, currentLocale, call, result, providerMounted,
                              localeState, translationsState, isLoadingTranslations,
                              fetchesIssued>>

\* setLocale(nextLocale): setLocaleState(nextLocale || DEFAULT_LOCALE), the
\* effect on [locale] of the render that follows, and AsyncStorage.setItem,
\* whose outcome changes nothing. Setting the locale it already has renders
\* nothing and runs no effect.
SetLocale(nextLocale) ==
    /\ providerMounted
    /\ fetchesIssued < MaxFetches
    /\ LET normalized == IF nextLocale # "" THEN nextLocale ELSE "en"
       IN  /\ normalized # localeState
           /\ localeState' = normalized
           /\ LocaleEffect(normalized, localeTasks)
    /\ UNCHANGED <<shop, providerMounted, translationsState>>

\* fetchTranslations from its await: setTranslations(data || {}), or
\* setTranslations({}) in catch; finally setIsLoading(false).
TranslationsArrive(t) ==
    /\ t \in localeTasks /\ t.kind = "translations"
    /\ \E answer \in {"ok", "empty", "err"} :
          translationsState' = IF answer = "ok" THEN TranslationsFor(t.locale)
                               ELSE EmptyTable
    /\ isLoadingTranslations' = FALSE
    /\ localeTasks' = localeTasks \ {t}
    /\ UNCHANGED <<shop, currentLocale, call, result, providerMounted, localeState,
                   fetchesIssued>>

NextLocalization ==
    \/ MountProvider
    \/ \E t \in localeTasks : LoadLocaleResumes(t)
    \/ \E nextLocale \in Locales : SetLocale(nextLocale)
    \/ \E t \in localeTasks : TranslationsArrive(t)

\* The provider on its own: nobody is signed in and no screen is open.
InitLocalization == Started /\ ~token /\ pressesLeft = 0

SpecLocalization == InitLocalization /\ [][NextLocalization]_vars

\* ------------------------------------------- the data layer, specified
NextLibrary ==
    \/ SetCurrentLocale
    \/ CallToBool
    \/ CallUnwrapCollection
    \/ CallEndpointsUnwrapCollection
    \/ CallGetLocalizedField
    \/ CallGetImageUrl
    \/ CallNormalizeCategory
    \/ CallNormalizeVendor
    \/ CallNormalizeProductVariant
    \/ CallNormalizeProduct
    \/ CallNormalizeCartItem
    \/ CallNormalizeCart

\* The data layer on its own: nobody is signed in and no screen is open.
InitLibrary == Started /\ ~token /\ pressesLeft = 0

SpecLibrary == InitLibrary /\ [][NextLibrary]_vars

\* ------------------------------------------------------------------ claims
\* The handlers a step starts: those of tasks' that continue none of tasks.
Spawned == {t \in tasks' : \A u \in tasks : u.id # t.id \/ u.kind # t.kind}

\* The step resumes handler t (to its end, or to its next await).
Resumed(t) == t \in tasks /\ t \notin tasks'

\* The step resumes mutation t of this kind with its updated cart.
Confirms(t, kinds) == Resumed(t) /\ t.kind \in kinds /\ t.get = "ok"

\* The step resumes mutation t of this kind with a rejection.
Rejects(t, kinds) ==
    Resumed(t) /\ t.kind \in kinds /\ (t.mut \in Rejections \/ t.get \in Rejections)

\* The screen shows the cart (not the loader or the sign-in prompt).
CartDisplayed == mounted /\ ~isLoading /\ isAuthenticated /\ cart # NullCart

\* Cart c is the cart of the response body, field by field.
PayloadShown(c, body) ==
    /\ c # NullCart
    /\ Len(c.items) = Len(body.items)
    /\ \A k \in DOMAIN body.items :
          /\ c.items[k].id = body.items[k].id
          /\ c.items[k].quantity = body.items[k].quantity
          /\ c.items[k].unit_price = body.items[k].unit_price
          /\ c.items[k].subtotal = body.items[k].subtotal
    /\ c.items_count = body.summary.items_count
    /\ c.subtotal = body.summary.subtotal
    /\ c.total = body.summary.total

\* The quantity cart c lists of an item, 0 when it does not list it.
QuantityOf(c, itemId) == IF HasItem(c, itemId) THEN ItemOf(c, itemId).quantity ELSE 0

\* s is a decimal string with two decimals.
TwoDecimals(s) ==
    /\ Len(s) >= 4
    /\ s[Len(s) - 2] = "."
    /\ \A k \in 1..Len(s) : k # Len(s) - 2 => IsDigit(s[k])

\* The totals of cart c are those of its item list: item 1 costs 10.00 and
\* item 2 costs 0.99.
TotalsRecomputed(c) ==
    /\ c.items_count = QuantityOf(c, 1) + QuantityOf(c, 2)
    /\ TwoDecimals(c.subtotal)
    /\ ParseFloat(c.subtotal) = 1000 * QuantityOf(c, 1) + 99 * QuantityOf(c, 2)
    /\ c.total = c.subtotal

\* C1: for every cart item, in every reachable state, at most one mutation
\* (changeQuantity or removeItem) on that item is in flight.
C1_OneMutationPerItem ==
    \A itemId \in ItemIds : Cardinality(MutationsOn(itemId)) <= 1

\* C2: an item with a mutation in flight stays Pending, its controls disabled
\* (the "mutation allowed" query false), until that mutation completes; a
\* mutation on another item, started or completed, never returns it to Idle.
C2_PendingUntilOwnCompletion ==
    \A itemId \in ItemIds : MutationsOn(itemId) # {} => ~MutationAllowed(itemId)

\* C3: when mutations, also concurrent ones on different items, have all
\* succeeded and no request remains in flight, the displayed Cart is the
\* server's authoritative Cart, in whatever order the responses came.
C3_ConcurrentMutationsConverge ==
    (CartDisplayed /\ Quiescent /\ clean) => cart = AuthoritativeCart

\* C4: once a failed update or remove has resolved (its Alert is up, no
\* request remains in flight), the displayed Cart is the freshly fetched
\* authoritative Cart, not the optimistic one.
C4_RollbackShowsServerCart ==
    (CartDisplayed /\ Quiescent /\ alert \in {"update_failed", "remove_failed"})
        => cart = AuthoritativeCart

\* C5: the step in which a changeQuantity or removeItem succeeds replaces the
\* displayed Cart, and the CartContext cart, by the Cart the service returned:
\* its items, items_count, subtotal and total.
C5_SuccessReplacesCart ==
    [][\A t \in tasks :
          Confirms(t, {"update", "remove"})
              => (PayloadShown(cart', t.resp) /\ ctxCart' = cart')]_vars

C5_Witness ==
    /\ CartDisplayed /\ Quiescent /\ clean
    /\ pressesLeft < MaxPresses
    /\ server.qty[1] = 3
    /\ cart = AuthoritativeCart /\ ctxCart = cart

\* C6: the step of changeQuantity (candidate quantity >= 1) that sends the
\* update request has, when the request leaves and before any response to
\* it, made the optimistic Cart the displayed one: the new quantity, and the
\* totals recomputed.
C6_OptimisticBeforeRequest ==
    [][\A t \in Spawned :
          t.kind = "update"
              => /\ t.get = "none"
                 /\ HasItem(cart', t.item)
                 /\ ItemOf(cart', t.item).quantity = t.qty
                 /\ TotalsRecomputed(cart')
                 /\ ctxCart' = cart']_vars

C6_Witness ==
    \E t \in tasks :
        /\ tasks = {t}
        /\ t.kind = "update" /\ t.get = "none"
        /\ pressesLeft = MaxPresses - 1
        /\ ItemOf(cart, t.item).quantity = t.qty
        /\ cart.items_count = 4

\* C7: the optimistic apply of changeQuantity(itemId, delta) gives the item
\* quantity = old quantity + delta and subtotal = the 2-decimal string of
\* unit_price x quantity ("10.00", 2, +1 gives "30.00"), leaves the other
\* items alone, and gives the cart items_count = the sum of the quantities and
\* subtotal = total = the 2-decimal string of the sum of unit_price x quantity.
C7_OptimisticArithmetic ==
    [][\A t \in Spawned :
          t.kind = "update"
              => LET old == ItemOf(cart, t.item)
                     new == ItemOf(cart', t.item)
                 IN  /\ new.quantity \in {old.quantity - 1, old.quantity + 1}
                     /\ new.unit_price = old.unit_price
                     /\ TwoDecimals(new.subtotal)
                     /\ ParseFloat(new.subtotal)
                            = (IF t.item = 1 THEN 1000 ELSE 99) * new.quantity
                     /\ (t.item = 1 /\ old.quantity = 2 /\ new.quantity = 3)
                            => new.subtotal = <<"3", "0", ".", "0", "0">>
                     /\ \A other \in ItemIds \ {t.item} :
                            /\ HasItem(cart', other) <=> HasItem(cart, other)
                            /\ HasItem(cart, other)
                                   => ItemOf(cart', other) = ItemOf(cart, other)
                     /\ TotalsRecomputed(cart')]_vars

C7_Witness ==
    \E t \in tasks :
        /\ t.kind = "update" /\ t.item = 1 /\ t.qty = 3 /\ t.get = "none"
        /\ ItemOf(cart, 1).unit_price = <<"1", "0", ".", "0", "0">>
        /\ ItemOf(cart, 1).subtotal = <<"3", "0", ".", "0", "0">>
        /\ cart.items_count = 4
        /\ cart.subtotal = <<"3", "0", ".", "9", "9">>
        /\ cart.total = <<"3", "0", ".", "9", "9">>

\* C8: removeItem has the shape of changeQuantity: the step that sends the
\* remove request shows the Cart without the item, its other items kept and
\* its totals recomputed over them; the step in which it succeeds shows the
\* Cart the service returned; the step in which it fails starts the re-fetch
\* (fetchCart).
C8_RemoveShape ==
    [][/\ \A t \in Spawned :
             t.kind = "remove"
                 => /\ t.get = "none"
                    /\ ~HasItem(cart', t.item)
                    /\ \A other \in ItemIds \ {t.item} :
                           /\ HasItem(cart', other) <=> HasItem(cart, other)
                           /\ HasItem(cart, other)
                                  => ItemOf(cart', other) = ItemOf(cart, other)
                    /\ TotalsRecomputed(cart')
                    /\ ctxCart' = cart'
       /\ \A t \in tasks :
             /\ Confirms(t, {"remove"})
                   => (PayloadShown(cart', t.resp) /\ ctxCart' = cart')
             /\ Rejects(t, {"remove"})
                   => \E f \in Spawned :
                         f.kind = "fetch" /\ f.stage = "auth" /\ f.caller = "remove"]_vars

C8_Witness ==
    /\ alert = "remove_failed"
    /\ \E f \in tasks : tasks = {f} /\ f.kind = "fetch" /\ f.caller = "remove"
    /\ server.qty[1] = 2 /\ server.qty[2] = 0
    /\ ~HasItem(cart, 1) /\ ~HasItem(cart, 2)
    /\ cart.items_count = 0

\* C9: applyCoupon is not optimistic and leaves the items untouched: the step
\* that sends it leaves the displayed Cart as it is; the step in which it
\* succeeds leaves the item list as it was just before, only subtotal and
\* total may change; the step in which it fails leaves the Cart unchanged.
C9_CouponLeavesItems ==
    [][/\ \A t \in Spawned : t.kind = "coupon" => cart' = cart
       /\ \A t \in tasks :
             /\ Confirms(t, {"coupon"})
                   => /\ cart'.items = cart.items
                      /\ cart'.items_count = cart.items_count
             /\ Rejects(t, {"coupon"}) => cart' = cart]_vars

\* The step resumes fetchCart t after checkAuth.
AfterAuth(t) == Resumed(t) /\ t.kind = "fetch" /\ t.stage = "auth"

\* fetchCart t goes on to `await getCart()`: its GET /cart is sent.
FetchSent(t) == \E u \in tasks' : u.id = t.id /\ u.kind = "fetch" /\ u.stage = "net"

\* The step in which a fetch of the cart succeeds shows the fetched Cart.
FetchReplaces ==
    \A t \in tasks :
        /\ (Resumed(t) /\ t.kind = "fetch" /\ t.get = "ok")
              => (PayloadShown(cart', t.resp) /\ ctxCart' = cart')
        /\ (Resumed(t) /\ t.kind = "refresh" /\ t.get = "ok")
              => PayloadShown(ctxCart', t.resp)

\* C10 as stated: refresh() sends the fetch-cart request in every state in
\* which it is invoked, and a fetch that succeeds replaces the Cart by the
\* fetched one.
C10_RefreshAlwaysFetches ==
    [][(\A t \in tasks : AfterAuth(t) => FetchSent(t)) /\ FetchReplaces]_vars

\* C10, amended: refresh() sends the fetch-cart request exactly when the user
\* is authenticated (an auth token is stored), and a fetch that succeeds
\* replaces the Cart by the fetched one.
C10_RefreshFetchesWhenAuthenticated ==
    [][(\A t \in tasks : AfterAuth(t) => (FetchSent(t) <=> token)) /\ FetchReplaces]_vars

C10_Witness ==
    /\ CartDisplayed /\ Quiescent /\ clean
    /\ pressesLeft = MaxPresses
    /\ cart = AuthoritativeCart /\ ctxCart = cart

\* The values the table of toBoolean makes true: true, 1, "1", a string that
\* trimmed and lower-cased is true/yes/on, and any other truthy non-string.
ToBoolTrue ==
    {Bool(TRUE), Num(1), Num(2), EmptyObject, Arr(<<>>)}
    \cup {Str(w) : w \in {<<"1">>, <<"t", "r", "u", "e">>, <<" ", "T", "R", "U", "E", " ">>, <<"Y", "e", "s">>, <<"o", "n">>, <<"O", "N", " ">>}}

\* C16: toBoolean answers by its table: true and false pass through; 1 and
\* "1" are true, 0 and "0" false; a string is true exactly when, trimmed and
\* lower-cased, it is true/yes/on, every other string ("maybe", "") being
\* false; null and undefined are false; any other value has its truthiness.
C16_ToBoolTable ==
    call.fn = "toBool" => result = Bool(call.input \in ToBoolTrue)

C16_Witness ==
    /\ call.fn = "toBool"
    /\ call.input = Str(<<" ", "T", "R", "U", "E", " ">>)
    /\ result = Bool(TRUE)

\* C18: unwrapCollection always returns an array: an array is returned as it
\* is, an object whose data is an array gives that array, anything else [].
C18_UnwrapIsArray ==
    call.fn \in {"unwrapCollection", "endpoints.unwrapCollection"} =>
        /\ result.t = "array"
        /\ call.input.t = "array" => result = call.input
        /\ call.input = Obj([data |-> Arr(<<Num(1), Num(2)>>)]) =>
                result = Arr(<<Num(1), Num(2)>>)
        /\ call.input = JsNull => result = Arr(<<>>)
        /\ call.input.t # "array" /\ Get(call.input, "data").t # "array" =>
                result = Arr(<<>>)

C18_Witness ==
    /\ call.fn = "unwrapCollection"
    /\ call.input = Obj([data |-> Str(<<"x">>)])
    /\ result = Arr(<<>>)

\* The arguments of the last call of getLocalizedField, and the candidates
\* of its resolution order: the name_<locale> column, the field itself, its
\* entry as a map by locale, and the entry of the translations container.
LocSource == Get(call.input, "source")
LocFallback == Get(call.input, "fallback")
LocColumn == Get(LocSource, "name_" \o call.locale)
LocField == Get(LocSource, "name")
LocMapEntry ==
    IF Truthy(Get(LocField, call.locale)) THEN Get(LocField, call.locale)
    ELSE Get(LocField, "en")
LocContainer ==
    IF Truthy(Get(LocSource, "translations")) THEN Get(LocSource, "translations")
    ELSE Get(LocSource, "i18n")
LocTranslation == Get(Get(LocContainer, call.locale), "name")

\* The tail of the order, shared by both readings: (3) the map entry, (4)
\* the translation, (5) the field if it is a string, (6) the fallback.
LocFromMapOn ==
    IF Truthy(LocMapEntry) THEN LocMapEntry
    ELSE IF Truthy(LocTranslation) THEN LocTranslation
    ELSE IF IsString(LocField) THEN LocField
    ELSE LocFallback

\* C17 as stated: getLocalizedField resolves in the order (1) the
\* name_<locale> column if truthy, (2) the field if it is a string, (3) the
\* field as a map: its locale entry, else its en entry, (4) the translations
\* (or i18n) entry for the locale, (5) the field if a string, (6) fallback.
C17_OrderAnyString ==
    call.fn = "getLocalizedField" =>
        result = IF Truthy(LocColumn) THEN LocColumn
                 ELSE IF IsString(LocField) THEN LocField
                 ELSE LocFromMapOn

\* C17, amended: the same order, step (2) taking the field only if it is a
\* non-empty string, so that an empty field yields to the translations and
\* is returned by step (5) only when they have nothing; under fr
\* {name: "A", name_fr: "B"} gives "B", under de it gives "A".
C17_OrderNonEmptyString ==
    call.fn = "getLocalizedField" =>
        /\ result = IF Truthy(LocColumn) THEN LocColumn
                    ELSE IF IsString(LocField) /\ LocField.v # <<>> THEN LocField
                    ELSE LocFromMapOn
        /\ LocSource = Obj([name |-> Text("A"), name_fr |-> Text("B")]) =>
                /\ call.locale = "fr" => result = Text("B")
                /\ call.locale = "de" => result = Text("A")

C17_Witness ==
    /\ call.fn = "getLocalizedField"
    /\ call.locale = "fr"
    /\ LocSource = Obj([name |-> Str(<<>>),
                        translations |-> Obj([fr |-> Obj([name |-> Text("T")])])])
    /\ result = Text("T")

\* C14: the normalizers are total: whatever the input, a call of a
\* normalizer or of getImageUrl returns a value and does not throw.
C14_NormalizersNeverThrow ==
    call.fn \in {"getImageUrl", "normalizeCategory", "normalizeVendor",
                 "normalizeProductVariant", "normalizeProduct",
                 "normalizeCartItem", "normalizeCart"} => result # Thrown

\* C13: every entity normalizer is idempotent: called on a value it
\* returned, it returns that value again; a canonical Cart keeps its
\* items_count, subtotal and total, a canonical ProductVariant its name and
\* attributes.
C13_NormalizersIdempotent ==
    call.canonical /\ result # Thrown => result = call.input

\* The raw nested reference of the last call and its normalized form.
RawRef(key) == Get(call.input, key)
Ref(key) == Get(result, key)
\* A reference that is normalized when the raw field is there and left
\* out (undefined, or null for a variant) when it is not.
Optional(key) ==
    /\ IsNullish(RawRef(key)) => IsNullish(Ref(key))
    /\ IsObject(RawRef(key)) => IsObject(Ref(key)) /\ Get(Ref(key), "id") = Get(RawRef(key), "id")

\* C15 as stated: Product.category, Product.vendor, CartItem.variant and
\* CartItem.product are normalized only if the raw field is present; an
\* absent one is omitted and never replaced by a normalized stub.
C15_ReferencesOnlyIfPresent ==
    /\ call.fn = "normalizeProduct" /\ result # Thrown =>
            Optional("category") /\ Optional("vendor")
    /\ call.fn = "normalizeCartItem" /\ result # Thrown =>
            Optional("variant") /\ Optional("product")

\* C15, amended: Product.category, Product.vendor and CartItem.variant are
\* normalized only if the raw field is present and omitted otherwise;
\* CartItem.product is always a normalized Product, the one of an empty
\* object (id 0, empty name) when the raw item has none.
C15_ProductAlwaysNormalized ==
    /\ call.fn = "normalizeProduct" /\ result # Thrown =>
            Optional("category") /\ Optional("vendor")
    /\ call.fn = "normalizeCartItem" /\ result # Thrown =>
            /\ Optional("variant")
            /\ IsObject(Ref("product"))
            /\ IsObject(RawRef("product")) =>
                    Get(Ref("product"), "id") = Or(Get(RawRef("product"), "id"), Num(0))
            /\ IsNullish(RawRef("product")) =>
                    /\ Get(Ref("product"), "id") = Num(0)
                    /\ Get(Ref("product"), "name") = Str(<<>>)

C15_Witness ==
    /\ call.fn = "normalizeCartItem" /\ ~call.canonical
    /\ Get(call.input, "id") = Num(3)
    /\ RawRef("product") = JsUndefined
    /\ Get(Ref("product"), "id") = Num(0)
    /\ Ref("variant") = JsNull

\* C19: under the locale ar, the product {id: 5, name: "Shoe", name_ar: X,
\* price: "49.99", in_stock: "1", variants: []} normalizes to id 5, the
\* name X, the price "49.99", in_stock true and no variants.
C19_ShoeInArabic ==
    call.fn = "normalizeProduct" /\ call.input = Shoe /\ call.locale = "ar" =>
        /\ Get(result, "id") = Num(5)
        /\ Get(result, "name") = Text("X")
        /\ Get(result, "price") = Str(<<"4", "9", ".", "9", "9">>)
        /\ Get(result, "in_stock") = Bool(TRUE)
        /\ Get(result, "variants") = Arr(<<>>)

C19_Witness ==
    /\ call.fn = "normalizeProduct" /\ call.input = Shoe /\ call.locale = "ar"
    /\ Get(result, "name") = Text("X")

\* C20: in every Cart normalizeCart produces, and in every Cart the cart
\* screen shows, items_count is the sum of the quantities of the items.
C20_ItemsCountIsSum ==
    /\ call.fn = "normalizeCart" /\ result # Thrown =>
            Get(result, "items_count") = Num(TotalQuantity(Get(result, "items").v))
    /\ cart # NullCart => cart.items_count = SumQuantity(cart.items)

\* C11: every failed mutation of the cart (addItem, changeQuantity,
\* removeItem, the failure of the cart fetch after an accepted mutation
\* included) starts a fetch of the cart afterwards.
C11_FailedMutationRefetches ==
    [][\A t \in tasks :
          Rejects(t, {"add", "update", "remove"})
              => \E u \in Spawned : u.kind \in {"fetch", "refresh"}]_vars

\* C12: each of addItem, changeQuantity, removeItem, applyCoupon and
\* refresh reports its failure (an error Alert is up after the step that
\* resumes it with a rejection); none ends as if it had succeeded.
C12_FailuresReported ==
    [][\A t \in tasks :
          Rejects(t, {"add", "update", "remove", "coupon", "fetch", "refresh"})
              => alert' \in {"add_failed", "update_failed", "remove_failed",
                             "coupon_failed", "refresh_failed"}]_vars

\* C21: the stock of every normalized ProductVariant is an integer that is
\* at least 0, and so is the quantity of every normalized CartItem.
C21_StockAndQuantityNatural ==
    /\ call.fn = "normalizeProductVariant" =>
            Get(result, "stock").t = "number" /\ Get(result, "stock").v >= 0
    /\ call.fn = "normalizeCartItem" /\ result # Thrown =>
            Get(result, "quantity").t = "number" /\ Get(result, "quantity").v >= 0

\* C22: a changeQuantity whose candidate quantity, current + delta, is
\* below 1 is treated as a removal: the step takes the item out of the
\* displayed Cart and sends the remove request, and sends no update request
\* for it.
C22_BelowOneRemoves ==
    [][\A t \in Spawned :
          (t.kind \in {"update", "remove"} /\ t.caller = "handleUpdateQuantity")
              => /\ ItemOf(cart, t.item).quantity - 1 < 1
                 /\ t.kind = "remove"
                 /\ ~HasItem(cart', t.item)
                 /\ \A u \in Spawned : u.kind # "update"]_vars

C22_Witness ==
    \E t \in tasks :
        /\ t.kind = "remove" /\ t.caller = "handleUpdateQuantity" /\ t.item = 2
        /\ server.qty[2] = 0
        /\ ~HasItem(cart, 2) /\ HasItem(cart, 1)

\* C23: the failure of changeQuantity or removeItem is reported only after
\* the resync: when the failure Alert goes up and the item returns to idle,
\* the re-fetch of the cart has completed, so the step that raises the Alert
\* is not the one that starts the re-fetch and leaves none in flight.
C23_AlertAfterResync ==
    [][\A t \in tasks :
          (Rejects(t, {"update", "remove"})
             /\ (alert' \in {"update_failed", "remove_failed"} \/ updatingItemId' = NoItem))
              => \A f \in tasks' : ~(f.kind = "fetch" /\ f.caller = t.kind /\ f.id = t.id)]_vars

\* C24: every issued mutation runs to completion: while the service answers
\* every request, an item with a mutation in flight eventually has none and
\* the pending mark eventually clears; a mutation leaves only by having its
\* result applied (the returned Cart shown) or discarded with a re-fetch
\* started, never cancelled or dropped.
C24_MutationsComplete ==
    /\ \A itemId \in ItemIds : (MutationsOn(itemId) # {}) ~> (MutationsOn(itemId) = {})
    /\ (updatingItemId # NoItem) ~> (updatingItemId = NoItem)
    /\ [][\A t \in tasks :
             (Resumed(t) /\ t.kind \in {"update", "remove"})
                 => \/ \E u \in tasks' : u.id = t.id /\ u.kind = t.kind /\ u.mut = "ok"
                    \/ t.get = "ok" /\ PayloadShown(cart', t.resp)
                    \/ /\ t.mut \in Rejections \/ t.get \in Rejections
                       /\ \E f \in Spawned : f.kind = "fetch" /\ f.caller = t.kind]_vars

C24_Witness ==
    /\ tasks = {} /\ pressesLeft = 0
    /\ updatingItemId = NoItem
    /\ alert = "update_failed"
    /\ server.qty[2] = 0
    /\ cart = AuthoritativeCart

\* C25: a normalized product's in_stock is toBoolean of the raw in_stock when
\* the raw product carries one, and otherwise (the field missing or null) true
\* exactly when some normalized variant has stock above 0.
C25_InStockDerived ==
    (call.fn = "normalizeProduct" /\ result # Thrown) =>
        LET explicit == Get(call.input, "in_stock")
            variants == Get(result, "variants").v
        IN  Get(result, "in_stock") =
                IF IsNullish(explicit)
                THEN Bool(\E k \in DOMAIN variants : Get(variants[k], "stock").v > 0)
                ELSE ToBool(explicit)

\* C26: the current locale is "en" until the first setCurrentLocale;
\* setCurrentLocale(l) with a non-empty l makes it l; every other call of the
\* data layer (getLocalizedField and the normalizers included) leaves it as it
\* was; and a getLocalizedField call resolves against the locale current at
\* the call: {name: {fr: M, en: E}} gives M under fr and E under any other.
C26_LocaleLifecycle ==
    /\ [](call = NoCall => currentLocale = "en")
    /\ [][IF call'.fn = "setCurrentLocale"
          THEN \A l \in Locales \ {""} :
                    call'.input = LocaleCode(l) => currentLocale' = l
          ELSE /\ currentLocale' = currentLocale
               /\ call'.fn = "getLocalizedField" =>
                    /\ call'.locale = currentLocale
                    /\ Get(call'.input, "source")
                            = Obj([name |-> Obj([fr |-> Text("M"), en |-> Text("E")])])
                        => result' = IF currentLocale = "fr" THEN Text("M") ELSE Text("E")]_vars

C26_Witness ==
    /\ currentLocale = "fr"
    /\ call.fn = "getLocalizedField" /\ call.locale = "fr"
    /\ LocSource = Obj([name |-> Obj([fr |-> Text("M"), en |-> Text("E")])])
    /\ result = Text("M")

\* C27: whenever no cart request is in flight and the cart screen shows the
\* cart, the cart of CartContext (the one the tab badge counts) is the cart
\* the screen shows.
C27_OneCart ==
    (tasks = {} /\ CartDisplayed) => ctxCart = cart

\* The ids of the items a cart lists, in the order of the list.
IdsListed(c) == [k \in DOMAIN ShownItems(c) |-> ShownItems(c)[k].id]

\* C28: the optimistic apply of changeQuantity keeps the list as long as it
\* was and in its order, leaves every row but the target as it was, and of
\* the target changes only quantity and subtotal; the optimistic apply of
\* removeItem leaves the remaining rows as they were and in their order; and
\* applied with the id of an item the cart does not list, neither changes an
\* item.
C28_OptimisticFrame ==
    /\ [](cart # NullCart =>
            \A itemId \in (ItemIds \cup {3}) :
                ~HasItem(cart, itemId) =>
                    /\ OptimisticRemove(cart, itemId).items = cart.items
                    /\ \A quantity \in 1..MaxQty :
                          OptimisticUpdate(cart, itemId, quantity).items = cart.items)
    /\ [][\A t \in Spawned :
             /\ t.kind = "update" =>
                   /\ IdsListed(cart') = IdsListed(cart)
                   /\ \A k \in DOMAIN cart.items :
                         IF cart.items[k].id = t.item
                         THEN cart.items[k] = [cart'.items[k] EXCEPT
                                                  !.quantity = cart.items[k].quantity,
                                                  !.subtotal = cart.items[k].subtotal]
                         ELSE cart'.items[k] = cart.items[k]
             /\ t.kind = "remove" =>
                   /\ \A other \in ItemIds \ {t.item} :
                         HasItem(cart, other) =>
                             HasItem(cart', other) /\ ItemOf(cart', other) = ItemOf(cart, other)
                   /\ \A i, j \in DOMAIN cart'.items :
                         i < j => \E m, n \in DOMAIN cart.items :
                                     /\ m < n
                                     /\ cart.items[m] = cart'.items[i]
                                     /\ cart.items[n] = cart'.items[j]
                   /\ Len(cart'.items) = Len(cart.items) - 1]_vars

C28_Witness ==
    \E t \in tasks :
        /\ t.kind = "update" /\ t.item = 1 /\ t.get = "none" /\ t.qty = 1
        /\ IdsListed(cart) = <<1, 2>>
        /\ cart.items[1].quantity = 1
        /\ cart.items[2].quantity = 1 /\ cart.items[2].subtotal = <<"0", ".", "9", "9">>
        /\ cart.items[2].product = 2

\* C29: every update request in flight carries a quantity of at least 1, and
\* the quantity an optimistic apply of changeQuantity gives an item, the one
\* its request carries, is at least 1 in the displayed Cart.
C29_QuantitiesAtLeastOne ==
    /\ [](\A t \in tasks : t.kind = "update" => t.qty >= 1)
    /\ [][\A t \in Spawned :
             t.kind = "update" =>
                 /\ ItemOf(cart', t.item).quantity = t.qty
                 /\ ItemOf(cart', t.item).quantity >= 1]_vars

C29_Witness ==
    \E t \in tasks :
        /\ t.kind = "update" /\ t.item = 1 /\ t.qty = 1 /\ t.mut = "ok"
        /\ server.qty[1] = 1
        /\ pressesLeft = 0
        /\ ItemOf(cart, 1).quantity = 1

\* C30: once LocalizationProvider has no translations request in flight, the
\* table it holds is the one of its current locale, or the empty one: never
\* the table of an earlier locale.
C30_TableOfCurrentLocale ==
    (providerMounted /\ \A t \in localeTasks : t.kind # "translations")
        => translationsState \in {TranslationsFor(localeState), EmptyTable}
====
